---------------------------- MODULE Spec2Model ----------------------------
(***************************************************************************)
(* A model of gomorphy (src/dawg.go): the DAWG reader, the words index,    *)
(* the paradigm-based morphology engine, the phrase concordance generator  *)
(* and the once-only initialisation facade.                                *)
(*                                                                         *)
(* Conventions.                                                            *)
(*  - A Go uint32 is the pair <<t, r>> standing for t * 2^31 + r, because  *)
(*    the model checker's integers are 32-bit signed.                      *)
(*  - Go slices are 0-based; the sequences here are 1-based, so s[i] of    *)
(*    the source is At(s, i) here.                                         *)
(*  - Strings are ASCII: Cyrillic letters are written in Latin             *)
(*    transliteration (the module's character set has no Cyrillic).        *)
(***************************************************************************)
EXTENDS Integers, Sequences, FiniteSets, TLC

VARIABLES
    unit,            \* SpecUnits: the 32-bit unit handed to the accessors
    offs,            \* SpecUnits: the result of unitOffset(unit), or NoResult
    defaultAnalyzer, \* package variable: the shared *Analyzer, or Nil
    defaultErr,      \* package variable: the load error, or Nil
    onceDone,        \* defaultOnce: its done flag
    onceM,           \* defaultOnce: the goroutine holding its mutex, or 0
    pc,              \* SpecOnce: where each goroutine stands in Default()
    loaded,          \* SpecOnce: the pair newAnalyzer() gave each goroutine
    ncalls,          \* SpecOnce: how many Default() calls each has started
    loads,           \* SpecOnce: how many times newAnalyzer() has run
    returned,        \* SpecOnce: every pair some Default() call returned
    analyzer,        \* the Analyzer: words (dict, guide), paradigms,
                     \* suffixes, gramtab
    arg,             \* the string handed to the operation under test
    op,              \* the operation that was called on arg, or NoResult
    ret,             \* what that operation returned, or how it failed
    cmpl,            \* SpecCompleter: the completer (Key, indexStack,
                     \* lastIndex)
    cpc,             \* SpecCompleter: "new", "run", or how next() failed
    cstart,          \* SpecCompleter: the index and prefix of the last start()
    ckeys,           \* SpecCompleter: the Key of each next() that returned
                     \* true since the last start()
    crets,           \* SpecCompleter: what each next() returned since the
                     \* last start()
    nstarts,         \* SpecCompleter: how many times start() was called
    calls,           \* SpecCallers: the call each goroutine is in: its
                     \* operation, argument, locals and result
    scratch          \* SpecCallers: the completers on the heap

NoResult == "none"
Nil == <<"nil", 0>>

varsUnits == <<unit, offs>>
varsOnce == <<defaultAnalyzer, defaultErr, onceDone, onceM, pc, loaded,
              ncalls, loads, returned>>
varsQuery == <<analyzer, arg, op, ret>>
varsCompleter == <<cmpl, cpc, cstart, ckeys, crets, nstarts>>
varsCallers == <<calls, scratch>>

-----------------------------------------------------------------------------
(* 32-bit unsigned arithmetic *)

RECURSIVE BitAnd1(_, _), BitXor1(_, _), BitAnd(_, _), BitXor(_, _)

\* 2^k for k in 0 .. 30
Pow2(k) ==
    <<1, 2, 4, 8, 16, 32, 64, 128, 256, 512, 1024, 2048, 4096, 8192, 16384,
      32768, 65536, 131072, 262144, 524288, 1048576, 2097152, 4194304,
      8388608, 16777216, 33554432, 67108864, 134217728, 268435456,
      536870912, 1073741824>>[k + 1]

Low31 == 2147483647

\* a & b and a ^ b bit by bit
BitAnd1(a, b) ==
    IF a = 0 \/ b = 0 THEN 0
    ELSE (a % 2) * (b % 2) + 2 * BitAnd1(a \div 2, b \div 2)

BitXor1(a, b) ==
    IF a = 0 THEN b
    ELSE IF b = 0 THEN a
    ELSE ((a + b) % 2) + 2 * BitXor1(a \div 2, b \div 2)

\* the same on hexadecimal digits, tabulated
HexAnd == [x \in 0 .. 15 |-> [y \in 0 .. 15 |-> BitAnd1(x, y)]]
HexXor == [x \in 0 .. 15 |-> [y \in 0 .. 15 |-> BitXor1(x, y)]]

\* a & b on naturals below 2^31, digit by digit
BitAnd(a, b) ==
    IF a = 0 \/ b = 0 THEN 0
    ELSE IF b = Low31 THEN a
    ELSE IF a = Low31 THEN b
    ELSE HexAnd[a % 16][b % 16] + 16 * BitAnd(a \div 16, b \div 16)

\* a ^ b on naturals below 2^31, digit by digit
BitXor(a, b) ==
    IF a = 0 THEN b
    ELSE IF b = 0 THEN a
    ELSE HexXor[a % 16][b % 16] + 16 * BitXor(a \div 16, b \div 16)

U32(n) == <<0, n>>
IsSmall(u) == u[1] = 0          \* the value is below 2^31
ToNat(u) == u[2]                \* the value of a small uint32
And32(u, v) == <<u[1] * v[1], BitAnd(u[2], v[2])>>
Or32(u, v) == <<u[1] + v[1] - u[1] * v[1],
                u[2] + v[2] - BitAnd(u[2], v[2])>>
Xor32(u, v) == <<(u[1] + v[1]) % 2, BitXor(u[2], v[2])>>
Not32(u) == <<1 - u[1], Low31 - u[2]>>
\* u >> k
Shr32(u, k) ==
    IF k = 0 THEN u
    ELSE IF k >= 32 THEN U32(0)
    ELSE <<0, u[1] * Pow2(31 - k) + (u[2] \div Pow2(k))>>
\* u << k, truncated to 32 bits
Shl32(u, k) ==
    IF k = 0 THEN u
    ELSE IF k >= 32 THEN U32(0)
    ELSE <<(u[2] \div Pow2(31 - k)) % 2, (u[2] % Pow2(31 - k)) * Pow2(k)>>

-----------------------------------------------------------------------------
(* DAWG unit bit fields *)

precisionMask == <<1, Low31>>       \* 0xFFFF_FFFF
isLeafBit == <<1, 0>>               \* 1 << 31
hasLeafBit == U32(256)              \* 1 << 8
extensionBit == U32(512)            \* 1 << 9

unitHasLeaf(u) == And32(u, hasLeafBit) # U32(0)
unitValue(u) == And32(u, Not32(isLeafBit))
unitLabel(u) == And32(u, Or32(isLeafBit, U32(255)))

\* the extension bit moved down by 5 instead of 6: a shift by 16
unitOffset_shift16(u) ==
    And32(Shl32(Shr32(u, 10), ToNat(Shr32(And32(u, extensionBit), 5))),
          precisionMask)

unitOffset(u) ==
    And32(Shl32(Shr32(u, 10), ToNat(Shr32(And32(u, extensionBit), 6))),
          precisionMask)

-----------------------------------------------------------------------------
(* SpecUnits: the unit accessors applied to sampled 32-bit units *)

OffsetFields == {0, 1, 2, 5, 1023, 1024, 4095, 1048576, 2097151}
LabelFields == {0, 1, 10, 255}

\* a unit from its fields: is-leaf, offset, extension, has-leaf, label
MkUnit(leaf, offset, ext, hasLeaf, label) ==
    <<leaf, offset * 1024 + ext * 512 + hasLeaf * 256 + label>>

UnitSamples ==
    { MkUnit(leaf, o, e, h, l) :
        leaf \in {0, 1}, o \in OffsetFields, e \in {0, 1}, h \in {0, 1},
        l \in LabelFields }

StartUnits ==
    /\ unit \in UnitSamples
    /\ offs = NoResult

\* the unit accessors are not in use
RestUnits ==
    /\ unit = U32(0)
    /\ offs = NoResult

ApplyUnitOffset ==
    /\ offs = NoResult
    /\ offs' = unitOffset(unit)
    /\ UNCHANGED unit

\* C10 as stated: the offset field is shifted left by the extension bit
\* itself, unitOffset(u) = ((u >> 10) << ((u >> 9) & 1)) mod 2^32.
C10_ShiftByOne ==
    offs # NoResult =>
        offs = Shl32(Shr32(unit, 10), ToNat(Shr32(unit, 9)) % 2)

\* C10 amended: unitOffset(u) is the field u >> 10 (bits 10..31) itself when
\* bit 9 is clear, and that field times 2^8 when bit 9 is set.
C10_ShiftByEight ==
    offs # NoResult =>
        /\ IsSmall(offs)
        /\ LET field == unit[1] * 2097152 + (unit[2] \div 1024)
               ext == (unit[2] \div 512) % 2
           IN  ToNat(offs) = IF ext = 0 THEN field ELSE field * 256

C10_Witness ==
    /\ offs # NoResult
    /\ (unit[2] \div 512) % 2 = 1
    /\ unit[2] \div 1024 > 0
    /\ unit[1] = 1

-----------------------------------------------------------------------------
(* Strings.  A string is a sequence of characters; every character of the   *)
(* model is one byte of the Go string.                                      *)

\* body(v) for the value v of an expression, the expression evaluated once
With(value, body(_)) == CHOOSE r \in { body(v) : v \in {value} } : TRUE

Chr(s, i) == SubSeq(s, i, i)

Lowercase == "abcdefghijklmnopqrstuvwxyz"
Uppercase == "ABCDEFGHIJKLMNOPQRSTUVWXYZ"

\* the byte of a character
ByteOf(ch) ==
    IF \E i \in 1 .. 26 : Chr(Lowercase, i) = ch
      THEN 96 + CHOOSE i \in 1 .. 26 : Chr(Lowercase, i) = ch
    ELSE IF \E i \in 1 .. 26 : Chr(Uppercase, i) = ch
      THEN 64 + CHOOSE i \in 1 .. 26 : Chr(Uppercase, i) = ch
    ELSE IF ch = " " THEN 32
    ELSE IF ch = "\t" THEN 9
    ELSE IF ch = "\n" THEN 10
    ELSE IF ch = "\r" THEN 13
    ELSE 63

RECURSIVE BytesFrom(_, _)

\* the bytes of s from position i on
BytesFrom(s, i) ==
    IF i > Len(s) THEN << >>
    ELSE <<ByteOf(Chr(s, i))>> \o BytesFrom(s, i + 1)

\* []byte(s)
Bytes(s) == BytesFrom(s, 1)

\* unicode.ToLower on one character
LowerChar(ch) ==
    IF \E i \in 1 .. 26 : Chr(Uppercase, i) = ch
      THEN Chr(Lowercase, CHOOSE i \in 1 .. 26 : Chr(Uppercase, i) = ch)
      ELSE ch

RECURSIVE ToLowerFrom(_, _), TrimLeft(_), TrimRight(_)
RECURSIVE FieldsFrom(_, _, _, _), Join(_, _), IndexAnyFrom(_, _, _)

\* s lowercased from position i on
ToLowerFrom(s, i) ==
    IF i > Len(s) THEN ""
    ELSE LowerChar(Chr(s, i)) \o ToLowerFrom(s, i + 1)

\* strings.ToLower
ToLower(s) == ToLowerFrom(s, 1)

\* unicode.IsSpace
IsSpace(ch) == ch \in {" ", "\t", "\n", "\r", "\f"}

TrimLeft(s) ==
    IF s # "" /\ IsSpace(Chr(s, 1))
      THEN With(SubSeq(s, 2, Len(s)), TrimLeft)
      ELSE s

TrimRight(s) ==
    IF s # "" /\ IsSpace(Chr(s, Len(s)))
      THEN With(SubSeq(s, 1, Len(s) - 1), TrimRight)
      ELSE s

\* strings.TrimSpace
TrimSpace(s) == With(TrimLeft(s), TrimRight)

\* the normalisation every public operation applies to its argument
Normalize(s) == With(TrimSpace(s), ToLower)

\* the fields of s from position i on; cur is the field being read
FieldsFrom(s, i, cur, acc) ==
    IF i > Len(s) THEN (IF cur = "" THEN acc ELSE Append(acc, cur))
    ELSE IF IsSpace(Chr(s, i))
      THEN FieldsFrom(s, i + 1, "", IF cur = "" THEN acc ELSE Append(acc, cur))
      ELSE FieldsFrom(s, i + 1, cur \o Chr(s, i), acc)

\* strings.Fields
Fields(s) == FieldsFrom(s, 1, "", << >>)

\* strings.Join
Join(elems, sep) ==
    IF elems = << >> THEN ""
    ELSE IF Len(elems) = 1 THEN elems[1]
    ELSE elems[1] \o sep \o Join(Tail(elems), sep)

\* strings.HasPrefix, strings.HasSuffix, strings.Contains
HasPrefix(s, prefix) ==
    Len(s) >= Len(prefix) /\ SubSeq(s, 1, Len(prefix)) = prefix
HasSuffix(s, suffix) ==
    Len(s) >= Len(suffix) /\ SubSeq(s, Len(s) - Len(suffix) + 1, Len(s)) = suffix
Contains(s, substr) ==
    \E u \in {s}, t \in {substr} :
        \E i \in 0 .. (Len(u) - Len(t)) : SubSeq(u, i + 1, i + Len(t)) = t

IndexAnyFrom(s, chars, i) ==
    IF i > Len(s) THEN -1
    ELSE IF Contains(chars, Chr(s, i)) THEN i - 1
    ELSE IndexAnyFrom(s, chars, i + 1)

\* strings.IndexAny: the 0-based index of the first character of s that is
\* in chars, or -1
IndexAny(s, chars) == IndexAnyFrom(s, chars, 1)

\* whether no element of the sequence occurs twice
NoDuplicates(seq) ==
    \A i, j \in 1 .. Len(seq) : seq[i] = seq[j] => i = j
\* the set of the elements of a sequence
Range(seq) == { seq[i] : i \in 1 .. Len(seq) }

-----------------------------------------------------------------------------
(* Go slices and the outcome of an operation *)

\* how an operation ends: it returns (NoFault), it panics on an index or a
\* slice bound out of range (Panic), or it does not return within the
\* model's bounds on the completer's loops (Hang)
NoFault == "none"
Panic == "panic"
Hang == "hang"

RECURSIVE seenFrom(_, _)

\* the elements i .. of seq that no earlier element of seq equals
seenFrom(seq, i) ==
    IF i > Len(seq) THEN << >>
    ELSE (IF \E j \in 1 .. i - 1 : seq[j] = seq[i] THEN << >> ELSE <<seq[i]>>)
            \o seenFrom(seq, i + 1)

\* what appending the elements of seq in order under a seen-set leaves: each
\* element at its first occurrence
seenOnce(seq) == seenFrom(seq, 1)

\* the sequence [i \in 1 .. n |-> ...] with its elements evaluated
Elements(seq) == << >> \o seq

\* s[i] of the source, for i in range
At(s, i) == s[i + 1]
\* whether the uint32 i is a valid index into s
InRange(s, i) == IsSmall(i) /\ ToNat(i) < Len(s)
Last(s) == s[Len(s)]
Front(s) == SubSeq(s, 1, Len(s) - 1)

-----------------------------------------------------------------------------
(* dictionary: the read-only array of 32-bit units *)

\* the result of a transition: found or not, or a run-time panic (an index
\* out of range)
Arc(next) == [ok |-> TRUE, next |-> next, fault |-> NoFault]
NoArc == [ok |-> FALSE, next |-> U32(0), fault |-> NoFault]
ArcPanic == [ok |-> FALSE, next |-> U32(0), fault |-> Panic]

\* d.hasValue(index), for index in range
hasValue(d, index) == unitHasLeaf(At(d.units, ToNat(index)))

followChar(d, label, index) ==
    IF ~InRange(d.units, index) THEN ArcPanic
    ELSE LET off == unitOffset(At(d.units, ToNat(index)))
             next == And32(Xor32(Xor32(index, off), label), precisionMask)
         IN  IF ~InRange(d.units, next) THEN ArcPanic
             ELSE IF unitLabel(At(d.units, ToNat(next))) # label THEN NoArc
             ELSE Arc(next)

RECURSIVE followBytes(_, _, _)

followBytes(d, b, index) ==
    IF b = << >> THEN Arc(index)
    ELSE With(followChar(d, U32(Head(b)), index),
              LAMBDA r : IF ~r.ok THEN r ELSE followBytes(d, Tail(b), r.next))

-----------------------------------------------------------------------------
(* guide: a (child label, sibling label) pair for each node *)

\* whether g.child(index) and g.sibling(index) are in range
guideInRange(g, index) == IsSmall(index) /\ 2 * ToNat(index) + 1 < Len(g.units)
child(g, index) == At(g.units, ToNat(index) * 2)
sibling(g, index) == At(g.units, ToNat(index) * 2 + 1)

-----------------------------------------------------------------------------
(* completer: the enumeration of the completions below a node *)

MaxDepth == 12      \* the longest descent of findTerminal the model follows
MaxKeys == 6        \* the most next() calls one get() makes in the model

newCompleter == [Key |-> << >>, indexStack |-> << >>, lastIndex |-> U32(0)]

start(c, index, prefix) ==
    [Key |-> prefix, indexStack |-> <<index>>, lastIndex |-> U32(0)]

\* what a call on the completer leaves: its result, the completer after it,
\* and whether it ended in a panic
Step(ok, c) == [ok |-> ok, c |-> c, fault |-> NoFault]
StepPanic(c) == [ok |-> FALSE, c |-> c, fault |-> Panic]
StepHang(c) == [ok |-> FALSE, c |-> c, fault |-> Hang]

\* c.follow without the append to Key
follow_noKey(c, d, label, index) ==
    With(followChar(d, U32(label), index),
         LAMBDA r :
            IF ~r.ok THEN [index |-> U32(0), c |-> c, fault |-> r.fault]
            ELSE [index |-> r.next,
                  c |-> [c EXCEPT !.indexStack = Append(@, r.next)],
                  fault |-> NoFault])

\* c.follow(label, index): the index reached and the completer after it
follow(c, d, label, index) ==
    With(followChar(d, U32(label), index),
         LAMBDA r :
            IF ~r.ok THEN [index |-> U32(0), c |-> c, fault |-> r.fault]
            ELSE [index |-> r.next,
                  c |-> [c EXCEPT !.Key = Append(@, label),
                                  !.indexStack = Append(@, r.next)],
                  fault |-> NoFault])

RECURSIVE findTerminal(_, _, _, _, _)

findTerminal(c, d, g, index, fuel) ==
    IF ~InRange(d.units, index) THEN StepPanic(c)
    ELSE IF hasValue(d, index) THEN Step(TRUE, [c EXCEPT !.lastIndex = index])
    ELSE IF ~guideInRange(g, index) THEN StepPanic(c)
    ELSE IF fuel = 0 THEN StepHang(c)
    ELSE With(followChar(d, U32(child(g, index)), index),
              LAMBDA r :
                 IF r.fault # NoFault THEN StepPanic(c)
                 ELSE IF ~r.ok THEN Step(FALSE, c)
                 ELSE findTerminal(
                        [c EXCEPT !.Key = Append(@, child(g, index)),
                                  !.indexStack = Append(@, r.next)],
                        d, g, r.next, fuel - 1))

\* what next() does with the arc it followed: it gives up, or descends
descend(f, d, g) ==
    IF f.fault # NoFault THEN StepPanic(f.c)
    ELSE IF f.index = U32(0) THEN Step(FALSE, f.c)
    ELSE findTerminal(f.c, d, g, f.index, MaxDepth)

RECURSIVE ascend(_, _, _, _)

\* the loop of next() that climbs to the nearest node with a sibling
ascend(c, d, g, index) ==
    IF ~guideInRange(g, index) THEN StepPanic(c)
    ELSE With([c EXCEPT !.Key = IF Len(@) > 0 THEN Front(@) ELSE @,
                        !.indexStack = Front(@)],
              LAMBDA c1 :
                 IF Len(c1.indexStack) = 0 THEN Step(FALSE, c1)
                 ELSE IF sibling(g, index) # 0
                   THEN With(follow(c1, d, sibling(g, index),
                                    Last(c1.indexStack)),
                             LAMBDA f : descend(f, d, g))
                 ELSE ascend(c1, d, g, Last(c1.indexStack)))

next(c, d, g) ==
    IF Len(c.indexStack) = 0 THEN Step(FALSE, c)
    ELSE IF c.lastIndex = U32(0)
      THEN findTerminal(c, d, g, Last(c.indexStack), MaxDepth)
    ELSE IF ~guideInRange(g, Last(c.indexStack)) THEN StepPanic(c)
    ELSE IF child(g, Last(c.indexStack)) # 0
      THEN With(follow(c, d, child(g, Last(c.indexStack)),
                       Last(c.indexStack)),
                LAMBDA f : descend(f, d, g))
    ELSE ascend(c, d, g, Last(c.indexStack))

-----------------------------------------------------------------------------
(* wordsDawg: the words index *)

dawgPayloadSep == 1     \* 0x01

\* the value of a base64 character of the standard alphabet, or -1
B64Value(b) ==
    IF b >= 65 /\ b <= 90 THEN b - 65
    ELSE IF b >= 97 /\ b <= 122 THEN b - 71
    ELSE IF b >= 48 /\ b <= 57 THEN b + 4
    ELSE IF b = 43 THEN 62
    ELSE IF b = 47 THEN 63
    ELSE -1

B64Pad == 61            \* '='

RECURSIVE B64Quanta(_, _)

\* the quanta of four characters of src, decoded in order
B64Quanta(src, acc) ==
    IF src = << >> THEN [err |-> FALSE, bytes |-> acc]
    ELSE LET v1 == B64Value(src[1])
             v2 == B64Value(src[2])
             v3 == B64Value(src[3])
             v4 == B64Value(src[4])
             final == Len(src) = 4
             b1 == v1 * 4 + (v2 \div 16)
             b2 == (v2 % 16) * 16 + (v3 \div 4)
             b3 == (v3 % 4) * 64 + v4
         IN  IF v1 < 0 \/ v2 < 0 THEN [err |-> TRUE, bytes |-> acc]
             ELSE IF v3 >= 0 /\ v4 >= 0
               THEN B64Quanta(SubSeq(src, 5, Len(src)), acc \o <<b1, b2, b3>>)
             ELSE IF final /\ v3 >= 0 /\ src[4] = B64Pad
               THEN [err |-> FALSE, bytes |-> acc \o <<b1, b2>>]
             ELSE IF final /\ src[3] = B64Pad /\ src[4] = B64Pad
               THEN [err |-> FALSE, bytes |-> Append(acc, b1)]
             ELSE [err |-> TRUE, bytes |-> acc]

\* base64.StdEncoding.DecodeString: line breaks are skipped, the padding is
\* required
DecodeString(key) ==
    LET src == SelectSeq(key, LAMBDA b : b # 10 /\ b # 13)
    IN  IF Len(src) % 4 # 0 THEN [err |-> TRUE, bytes |-> << >>]
        ELSE B64Quanta(src, << >>)

\* binary.BigEndian.Uint16
BigEndianUint16(b) == b[1] * 256 + b[2]

\* the result of get: the entries, or how it failed to return
Entries(es) == [fault |-> NoFault, entries |-> es]
GetFault(f) == [fault |-> f, entries |-> << >>]

\* the key of a completion without the newline b2a_base64 appends
stripNewline(key) ==
    IF Len(key) > 0 /\ Last(key) = 10 THEN Front(key) ELSE key

\* the same, the two halves of the payload read in little-endian order
appendEntry_littleEndian(result, dec) ==
    IF dec.err \/ Len(dec.bytes) < 4 THEN result
    ELSE Append(result,
                [paradigmID |-> dec.bytes[1] + 256 * dec.bytes[2],
                 formIdx |-> dec.bytes[3] + 256 * dec.bytes[4]])

\* result with the entry a completion decodes to, if it decodes to one
appendEntry(result, dec) ==
    IF dec.err \/ Len(dec.bytes) < 4 THEN result
    ELSE Append(result,
                [paradigmID |-> BigEndianUint16(SubSeq(dec.bytes, 1, 2)),
                 formIdx |-> BigEndianUint16(SubSeq(dec.bytes, 3, 4))])

RECURSIVE getLoop(_, _, _, _)

\* the loop "for c.next()" of get
getLoop(w, c, result, fuel) ==
    With(next(c, w.dict, w.guide),
         LAMBDA s :
            IF s.fault # NoFault THEN GetFault(s.fault)
            ELSE IF ~s.ok THEN Entries(result)
            ELSE IF fuel = 0 THEN GetFault(Hang)
            ELSE With(appendEntry(result,
                                  DecodeString(stripNewline(s.c.Key))),
                      LAMBDA result1 : getLoop(w, s.c, result1, fuel - 1)))

\* get, from the node the bytes of the word lead to
getFrom(w, r1) ==
    IF r1.fault # NoFault THEN GetFault(r1.fault)
    ELSE IF ~r1.ok THEN Entries(<< >>)
    ELSE With(followChar(w.dict, U32(dawgPayloadSep), r1.next),
              LAMBDA r2 :
                 IF r2.fault # NoFault THEN GetFault(r2.fault)
                 ELSE IF ~r2.ok THEN Entries(<< >>)
                 ELSE getLoop(w, start(newCompleter, r2.next, << >>), << >>,
                              MaxKeys))

get(w, word) ==
    With(followBytes(w.dict, Bytes(word), U32(0)), LAMBDA r1 : getFrom(w, r1))

-----------------------------------------------------------------------------
(* Analyzer: the morphology engine *)

paradigmPrefixes == <<"", "po", "nai">>

serviceWords ==
    {"v", "vo", "na", "po", "iz", "za", "ot", "do", "ob", "obo", "pri", "pro",
     "nad", "pod", "bez", "dlja", "cherez", "mezhdu", "sredi", "okolo",
     "posle", "pered", "vokrug", "protiv", "vmesto", "krome", "s", "so", "k",
     "ko", "o", "i", "ili", "no", "a", "ne", "ni", "kak", "chto", "eto"}

\* the result of an operation: the value it returns, or how it failed to
Ret(v) == [fault |-> NoFault, val |-> v]
Fault(f, v) == [fault |-> f, val |-> v]

\* tagPOS: the token before the first comma or space
tagPOS(tag) ==
    LET i == IndexAny(tag, ", ")
    IN  IF i >= 0 THEN SubSeq(tag, 1, i) ELSE tag

RECURSIVE tagGrammeme(_, _)

\* tagGrammeme: the first candidate that occurs in tag, or ""
tagGrammeme(tag, candidates) ==
    IF candidates = << >> THEN ""
    ELSE IF Contains(tag, Head(candidates)) THEN Head(candidates)
    ELSE tagGrammeme(tag, Tail(candidates))

tagMatches(tag, cas, number, gender, animacy) ==
    /\ (cas = "" \/ Contains(tag, cas))
    /\ (number = "" \/ Contains(tag, number))
    /\ (gender = "" \/ Contains(tag, gender))
    /\ (animacy = "" \/ Contains(tag, animacy))

\* extractStem stripping the suffix only: the prefix stays in the stem
extractStem_keepPrefix(a, word, para, n, formIdx) ==
    IF formIdx >= Len(para) \/ At(para, formIdx) >= Len(a.suffixes)
      THEN [stem |-> "", ok |-> FALSE, fault |-> Panic]
    ELSE IF 2 * n + formIdx >= Len(para)
            \/ At(para, 2 * n + formIdx) >= Len(paradigmPrefixes)
      THEN [stem |-> "", ok |-> FALSE, fault |-> Panic]
    ELSE LET suffix == At(a.suffixes, At(para, formIdx))
             prefix == At(paradigmPrefixes, At(para, 2 * n + formIdx))
         IN  IF ~HasPrefix(word, prefix) \/ ~HasSuffix(word, suffix)
               THEN [stem |-> "", ok |-> FALSE, fault |-> NoFault]
             ELSE [stem |-> SubSeq(word, 1, Len(word) - Len(suffix)),
                   ok |-> TRUE, fault |-> NoFault]

\* extractStem: [stem, ok], or a panic on a suffix or prefix id out of its
\* table, or on a prefix and suffix that overlap in word
extractStem(a, word, para, n, formIdx) ==
    IF formIdx >= Len(para) \/ At(para, formIdx) >= Len(a.suffixes)
      THEN [stem |-> "", ok |-> FALSE, fault |-> Panic]
    ELSE IF 2 * n + formIdx >= Len(para)
            \/ At(para, 2 * n + formIdx) >= Len(paradigmPrefixes)
      THEN [stem |-> "", ok |-> FALSE, fault |-> Panic]
    ELSE LET suffix == At(a.suffixes, At(para, formIdx))
             prefix == At(paradigmPrefixes, At(para, 2 * n + formIdx))
         IN  IF ~HasPrefix(word, prefix) \/ ~HasSuffix(word, suffix)
               THEN [stem |-> "", ok |-> FALSE, fault |-> NoFault]
             ELSE IF Len(prefix) > Len(word) - Len(suffix)
               THEN [stem |-> "", ok |-> FALSE, fault |-> Panic]
             ELSE [stem |-> SubSeq(word, Len(prefix) + 1,
                                   Len(word) - Len(suffix)),
                   ok |-> TRUE, fault |-> NoFault]

\* the form i of a paradigm on a stem, for ids inside their tables
FormOf(a, para, n, stem, i) ==
    At(paradigmPrefixes, At(para, 2 * n + i)) \o stem
        \o At(a.suffixes, At(para, i))
\* whether building form i panics: a prefix or suffix id outside its table
FormPanics(a, para, n, i) ==
    \/ At(para, 2 * n + i) >= Len(paradigmPrefixes)
    \/ At(para, i) >= Len(a.suffixes)

\* the loop of WordForms without its seen-set
formsLoop_noSeen(a, para, n, stem) ==
    IF \E i \in 0 .. n - 1 : FormPanics(a, para, n, i)
      THEN Fault(Panic, << >>)
    ELSE Ret(Elements([k \in 1 .. n |-> FormOf(a, para, n, stem, k - 1)]))

\* the loop of WordForms: the forms 0 .. n-1, appended under the seen-set
formsLoop(a, para, n, stem) ==
    IF \E i \in 0 .. n - 1 : FormPanics(a, para, n, i)
      THEN Fault(Panic, << >>)
    ELSE Ret(With(Elements([k \in 1 .. n |->
                              FormOf(a, para, n, stem, k - 1)]),
                  seenOnce))

\* WordForms from the stem of the word on
formsOfStem(a, para, st) ==
    IF st.fault # NoFault THEN Fault(st.fault, << >>)
    ELSE IF ~st.ok THEN Ret(<< >>)
    ELSE formsLoop(a, para, Len(para) \div 3, st.stem)

\* WordForms from the paradigm of the first parse on
formsOfParadigm(a, word, e, para) ==
    IF e.formIdx >= Len(para) \div 3 THEN Ret(<< >>)
    ELSE With(extractStem(a, word, para, Len(para) \div 3, e.formIdx),
              LAMBDA st : formsOfStem(a, para, st))

\* WordForms from the entries of the word on
formsOfEntries(a, word, g) ==
    IF g.fault # NoFault THEN Fault(g.fault, << >>)
    ELSE IF Len(g.entries) = 0 THEN Ret(<< >>)
    ELSE IF g.entries[1].paradigmID >= Len(a.paradigms)
      THEN Fault(Panic, << >>)
    ELSE With(At(a.paradigms, g.entries[1].paradigmID),
              LAMBDA para : formsOfParadigm(a, word, g.entries[1], para))

\* WordForms of a normalised word
formsOfWord(a, word) ==
    IF word = "" THEN Ret(<< >>)
    ELSE With(get(a.words, word), LAMBDA g : formsOfEntries(a, word, g))

\* WordForms; a nil slice is the empty sequence
WordForms(a, word0) ==
    With(Normalize(word0), LAMBDA word : formsOfWord(a, word))

\* Tag from the paradigm of the first parse on
tagOfParadigm(a, e, para) ==
    IF (Len(para) \div 3) + e.formIdx >= Len(para) THEN Fault(Panic, "")
    ELSE IF At(para, (Len(para) \div 3) + e.formIdx) >= Len(a.gramtab)
      THEN Ret("")
    ELSE Ret(At(a.gramtab, At(para, (Len(para) \div 3) + e.formIdx)))

\* Tag from the entries of the word on
tagOfEntries(a, g) ==
    IF g.fault # NoFault THEN Fault(g.fault, "")
    ELSE IF Len(g.entries) = 0 THEN Ret("")
    ELSE IF g.entries[1].paradigmID >= Len(a.paradigms) THEN Fault(Panic, "")
    ELSE With(At(a.paradigms, g.entries[1].paradigmID),
              LAMBDA para : tagOfParadigm(a, g.entries[1], para))

Tag(a, word0) ==
    With(get(a.words, Normalize(word0)), LAMBDA g : tagOfEntries(a, g))

\* the forms at which the loop of inflect stops: the tag matches, or the tag
\* id is outside the gramtab
inflectStops(a, para, n, cas, number, gender, animacy) ==
    { i \in 0 .. n - 1 :
        \/ At(para, n + i) >= Len(a.gramtab)
        \/ tagMatches(At(a.gramtab, At(para, n + i)), cas, number, gender,
                      animacy) }

\* the loop of inflect, given the forms at which it stops: it returns at the
\* first
inflectLoop(a, word, para, n, stem, stops) ==
    IF stops = {} THEN Ret(word)
    ELSE With(CHOOSE i \in stops : \A j \in stops : i <= j,
              LAMBDA i :
                 IF At(para, n + i) >= Len(a.gramtab) THEN Fault(Panic, "")
                 ELSE IF FormPanics(a, para, n, i) THEN Fault(Panic, "")
                 ELSE Ret(FormOf(a, para, n, stem, i)))

\* inflect from the stem of the word on
inflectStem(a, word, para, st, cas, number, gender, animacy) ==
    IF st.fault # NoFault THEN Fault(st.fault, "")
    ELSE IF ~st.ok THEN Ret(word)
    ELSE With(inflectStops(a, para, Len(para) \div 3, cas, number, gender,
                           animacy),
              LAMBDA stops : inflectLoop(a, word, para, Len(para) \div 3,
                                         st.stem, stops))

\* inflect from the paradigm of the first parse on
inflectParadigm(a, word, e, para, cas, number, gender, animacy) ==
    With(extractStem(a, word, para, Len(para) \div 3, e.formIdx),
         LAMBDA st : inflectStem(a, word, para, st, cas, number, gender,
                                 animacy))

\* inflect from the entries of the word on
inflectEntries(a, word, g, cas, number, gender, animacy) ==
    IF g.fault # NoFault THEN Fault(g.fault, "")
    ELSE IF Len(g.entries) = 0 THEN Ret(word)
    ELSE IF g.entries[1].paradigmID >= Len(a.paradigms) THEN Fault(Panic, "")
    ELSE With(At(a.paradigms, g.entries[1].paradigmID),
              LAMBDA para : inflectParadigm(a, word, g.entries[1], para, cas,
                                            number, gender, animacy))

inflect(a, word, cas, number, gender, animacy) ==
    With(get(a.words, word),
         LAMBDA g : inflectEntries(a, word, g, cas, number, gender, animacy))

\* the requested case kept as it is, without the accusative rule
effectiveCas_asRequested(cas, number, gender, animacy) == cas

\* the case an adjective takes for a requested case: the accusative rule
effectiveCas(cas, number, gender, animacy) ==
    IF cas # "accs" THEN cas
    ELSE IF number = "plur"
      THEN (IF animacy = "inan" THEN "nomn" ELSE "gent")
    ELSE IF number = "sing" /\ gender = "masc"
      THEN (IF animacy = "inan" THEN "nomn" ELSE "gent")
    ELSE IF number = "sing" /\ gender = "neut" THEN "nomn"
    ELSE cas

\* the arguments inflectAdj hands to inflect after the word
inflectAdjCall(cas, number, gender, animacy) ==
    [cas |-> effectiveCas(cas, number, gender, animacy),
     number |-> number,
     gender |-> IF number = "plur" THEN "" ELSE gender,
     animacy |-> ""]

\* inflect called with the arguments c after the word
inflectWith(a, word, c) ==
    inflect(a, word, c.cas, c.number, c.gender, c.animacy)

inflectAdj(a, word, cas, number, gender, animacy) ==
    With(inflectAdjCall(cas, number, gender, animacy),
         LAMBDA c : inflectWith(a, word, c))

-----------------------------------------------------------------------------
(* Analyzer: phrase concordance *)

cases == <<"nomn", "gent", "datv", "accs", "ablt", "loct">>
numbers == <<"sing", "plur">>

noInfo == [pos |-> "", animacy |-> "", gender |-> ""]

\* the wordInfo of a tag
infoOfTag(tag) ==
    IF tag = "" THEN noInfo
    ELSE [pos |-> tagPOS(tag),
          animacy |-> tagGrammeme(tag, <<"anim", "inan">>),
          gender |-> tagGrammeme(tag, <<"masc", "femn", "neut">>)]

\* the wordInfo the first loop of PhraseFormsConcordant leaves for a token
wordInfo(a, w) ==
    IF w \in serviceWords THEN Ret(noInfo)
    ELSE With(Tag(a, w),
              LAMBDA t : IF t.fault # NoFault THEN Fault(t.fault, noInfo)
                         ELSE Ret(infoOfTag(t.val)))

RECURSIVE infosFrom(_, _, _, _)

\* the first loop of PhraseFormsConcordant from token i on
infosFrom(a, words, i, infos) ==
    IF i > Len(words) THEN Ret(infos)
    ELSE With(wordInfo(a, words[i]),
              LAMBDA r : IF r.fault # NoFault THEN Fault(r.fault, << >>)
                         ELSE infosFrom(a, words, i + 1, Append(infos, r.val)))

\* headIdx if the first NOUN or NPRO were kept instead of the last
headIdx_first(infos) ==
    LET heads == { i \in 1 .. Len(infos) : infos[i].pos \in {"NOUN", "NPRO"} }
    IN  IF heads = {} THEN -1
        ELSE (CHOOSE i \in heads : \A j \in heads : i <= j) - 1

\* headIdx: the 0-based index of the last NOUN or NPRO among infos, or -1
headIdx(infos) ==
    LET heads == { i \in 1 .. Len(infos) : infos[i].pos \in {"NOUN", "NPRO"} }
    IN  IF heads = {} THEN -1
        ELSE (CHOOSE i \in heads : \A j \in heads : j <= i) - 1

\* the result without the seen-set
phraseSeen_off(result) == result

\* the result: the phrase and the forms appended to it under the seen-set
phraseSeen(result) == seenOnce(result)

RECURSIVE flatten(_, _, _, _)

\* the branch without a head: the forms of the words i .. k, flattened
flatten(a, words, i, result) ==
    IF i > Len(words) THEN Ret(With(result, phraseSeen))
    ELSE IF words[i] \in serviceWords THEN flatten(a, words, i + 1, result)
    ELSE With(WordForms(a, words[i]),
              LAMBDA f : IF f.fault # NoFault THEN Fault(f.fault, << >>)
                         ELSE flatten(a, words, i + 1, result \o f.val))

\* one token of a declined phrase, the default case of the switch left out:
\* the token keeps the zero value of make([]string, ...)
declineToken_noDefault(a, w, info, cas, number, head) ==
    IF w \in serviceWords THEN Ret(w)
    ELSE IF info.pos \in {"NOUN", "NPRO"}
      THEN inflect(a, w, cas, number, "", "")
    ELSE IF info.pos \in {"ADJF", "PRTF"}
      THEN inflectAdj(a, w, cas, number, head.gender, head.animacy)
    ELSE Ret("")

\* one token of a declined phrase: the body of the loop over the words
declineToken(a, w, info, cas, number, head) ==
    IF w \in serviceWords THEN Ret(w)
    ELSE IF info.pos \in {"NOUN", "NPRO"}
      THEN inflect(a, w, cas, number, "", "")
    ELSE IF info.pos \in {"ADJF", "PRTF"}
      THEN inflectAdj(a, w, cas, number, head.gender, head.animacy)
    ELSE Ret(w)

RECURSIVE declineFrom(_, _, _, _, _, _, _, _)

\* the loop over the words of one declined phrase, from token i on
declineFrom(a, words, infos, head, cas, number, i, declined) ==
    IF i > Len(words) THEN Ret(declined)
    ELSE With(declineToken(a, words[i], infos[i], cas, number, head),
              LAMBDA r : IF r.fault # NoFault THEN Fault(Panic, << >>)
                         ELSE declineFrom(a, words, infos, head, cas, number,
                                          i + 1, Append(declined, r.val)))

\* the j-th pair of the loops over numbers and cases
numberOf(j) == numbers[((j - 1) \div Len(cases)) + 1]
casOf(j) == cases[((j - 1) % Len(cases)) + 1]

\* the declined phrases of the pairs of number and case, in the order of the
\* loops
declinedPhrases(a, words, infos, head) ==
    Elements([j \in 1 .. Len(numbers) * Len(cases) |->
                declineFrom(a, words, infos, head, casOf(j), numberOf(j), 1,
                            << >>)])

\* the loops over numbers and cases, given the declined phrases: each is
\* joined and appended under the seen-set
headLoop(phrase, ds) ==
    IF \E j \in 1 .. Len(ds) : ds[j].fault # NoFault THEN Fault(Panic, << >>)
    ELSE Ret(With(<<phrase>> \o [j \in 1 .. Len(ds) |-> Join(ds[j].val, " ")],
                  phraseSeen))

\* the single-token branch without its fallback to the word itself
singleToken_noFallback(a, word) == WordForms(a, word)

\* the single-token branch of PhraseFormsConcordant
singleToken(a, word) ==
    With(WordForms(a, word),
         LAMBDA forms : IF forms.fault # NoFault THEN forms
                        ELSE IF forms.val # << >> THEN forms
                        ELSE Ret(<<word>>))

\* the branches for several tokens, the first loop done
severalTokens(a, phrase, words, r) ==
    IF r.fault # NoFault THEN Fault(Panic, << >>)
    ELSE IF headIdx(r.val) = -1 THEN flatten(a, words, 1, <<phrase>>)
    ELSE With(declinedPhrases(a, words, r.val, At(r.val, headIdx(r.val))),
              LAMBDA ds : headLoop(phrase, ds))

\* PhraseFormsConcordant of a normalised phrase and its tokens
phraseForms(a, phrase, words) ==
    IF Len(words) = 0 THEN Ret(<< >>)
    ELSE IF Len(words) = 1 THEN singleToken(a, words[1])
    ELSE With(infosFrom(a, words, 1, << >>),
              LAMBDA r : severalTokens(a, phrase, words, r))

PhraseFormsConcordant(a, phrase0) ==
    With(Normalize(phrase0),
         LAMBDA phrase : With(Fields(phrase),
                              LAMBDA words : phraseForms(a, phrase, words)))

-----------------------------------------------------------------------------
(* The tables of a lexicon *)

\* the words index, paradigms, suffixes and gramtab of a lexicon
MainUnits ==
    <<
    <<0, 0>>, <<0, 266329>>, <<0, 147521>>, <<0, 174177>>, <<0, 150593>>,
    <<0, 141413>>, <<0, 192613>>, <<0, 162881>>, <<0, 155752>>,
    <<0, 167023>>, <<0, 158826>>, <<0, 79873>>, <<0, 175169>>,
    <<0, 161901>>, <<0, 88129>>, <<0, 195649>>, <<0, 168001>>, <<0, 94209>>,
    <<0, 289861>>, <<0, 95233>>, <<0, 189557>>, <<0, 67649>>, <<0, 76801>>,
    <<0, 77825>>, <<0, 103425>>, <<0, 71681>>, <<0, 166977>>, <<0, 177217>>,
    <<0, 164929>>, <<0, 151553>>, <<0, 164929>>, <<0, 152577>>,
    <<0, 64513>>, <<0, 60417>>, <<0, 18433>>, <<0, 23656>>, <<0, 119809>>,
    <<0, 145473>>, <<0, 167021>>, <<0, 168047>>, <<0, 193537>>,
    <<0, 175201>>, <<0, 76906>>, <<0, 187393>>, <<0, 183297>>, <<0, 7269>>,
    <<0, 162817>>, <<0, 175213>>, <<0, 192613>>, <<0, 84086>>, <<0, 86119>>,
    <<0, 137217>>, <<0, 183414>>, <<0, 133121>>, <<0, 141313>>,
    <<0, 118785>>, <<0, 186477>>, <<0, 245825>>, <<0, 245761>>, <<0, 104>>,
    <<0, 237633>>, <<0, 16501>>, <<0, 186477>>, <<0, 182378>>, <<0, 11361>>,
    <<0, 122981>>, <<0, 17505>>, <<0, 86133>>, <<0, 84069>>, <<0, 125025>>,
    <<0, 97381>>, <<0, 92263>>, <<0, 130154>>, <<0, 15361>>, <<0, 16385>>,
    <<0, 30831>>, <<0, 14447>>, <<0, 106605>>, <<0, 110703>>, <<0, 89209>>,
    <<0, 100469>>, <<0, 17525>>, <<0, 43009>>, <<0, 70757>>, <<0, 68725>>,
    <<0, 56426>>, <<0, 75893>>, <<0, 220257>>, <<0, 65657>>, <<0, 221295>>,
    <<0, 69753>>, <<0, 20545>>, <<0, 220261>>, <<0, 62585>>, <<0, 10305>>,
    <<0, 120937>>, <<0, 88172>>, <<0, 118894>>, <<0, 115817>>,
    <<0, 117869>>, <<0, 69743>>, <<0, 102501>>, <<0, 106593>>,
    <<0, 103527>>, <<0, 124005>>, <<0, 104559>>, <<0, 101487>>,
    <<0, 106603>>, <<0, 102511>>, <<0, 107631>>, <<0, 109678>>,
    <<0, 101481>>, <<0, 120944>>, <<0, 21569>>, <<0, 95343>>, <<0, 129139>>,
    <<0, 117876>>, <<0, 129140>>, <<0, 89202>>, <<0, 246892>>,
    <<0, 116852>>, <<0, 111732>>, <<0, 62575>>, <<0, 98415>>, <<0, 97396>>,
    <<0, 54380>>, <<0, 110701>>, <<0, 93302>>, <<0, 22529>>, <<0, 21505>>,
    <<0, 31745>>, <<0, 26625>>, <<0, 61441>>, <<0, 81921>>, <<0, 81921>>,
    <<0, 38913>>, <<0, 420929>>, <<0, 93185>>, <<0, 84993>>, <<0, 422977>>,
    <<0, 82945>>, <<0, 82945>>, <<0, 113665>>, <<0, 81921>>, <<0, 121857>>,
    <<0, 119809>>, <<0, 123905>>, <<0, 397377>>, <<0, 406593>>,
    <<0, 393281>>, <<0, 406593>>, <<0, 406593>>, <<0, 450625>>,
    <<0, 450625>>, <<0, 100353>>, <<0, 110593>>, <<0, 450625>>,
    <<0, 457793>>, <<0, 453697>>, <<0, 101377>>, <<0, 403521>>,
    <<0, 425985>>, <<0, 425985>>, <<0, 94209>>, <<0, 433153>>,
    <<0, 407617>>, <<0, 403521>>, <<0, 436225>>, <<0, 448513>>,
    <<0, 443393>>, <<0, 400449>>, <<0, 401409>>, <<0, 404481>>,
    <<0, 404481>>, <<0, 424001>>, <<0, 394241>>, <<0, 394305>>,
    <<0, 424001>>, <<0, 426049>>, <<0, 394305>>, <<0, 455761>>,
    <<0, 454725>>, <<0, 398401>>, <<0, 429121>>, <<0, 409665>>,
    <<0, 405569>>, <<0, 405505>>, <<0, 411713>>, <<0, 520257>>,
    <<0, 403521>>, <<0, 397377>>, <<0, 429121>>, <<0, 522241>>,
    <<0, 518145>>, <<0, 434177>>, <<0, 520193>>, <<0, 34935>>,
    <<0, 443393>>, <<1, 0>>, <<0, 0>>, <<0, 31809>>, <<0, 8301>>,
    <<0, 10344>>, <<0, 19521>>, <<0, 489571>>, <<0, 11530>>, <<0, 0>>,
    <<0, 474221>>, <<0, 0>>, <<0, 22589>>, <<0, 16502>>, <<0, 35905>>,
    <<0, 37953>>, <<0, 59457>>, <<0, 37953>>, <<0, 37953>>, <<0, 47169>>,
    <<0, 61505>>, <<0, 0>>, <<0, 56381>>, <<0, 38977>>, <<0, 36929>>,
    <<0, 35905>>, <<0, 28773>>, <<0, 30785>>, <<0, 74857>>, <<0, 507977>>,
    <<0, 68709>>, <<0, 0>>, <<0, 0>>, <<0, 74817>>, <<0, 70753>>,
    <<0, 225384>>, <<0, 78959>>, <<0, 114792>>, <<0, 225386>>, <<0, 75881>>,
    <<0, 106605>>, <<0, 114797>>, <<0, 118893>>, <<0, 514113>>,
    <<0, 513089>>, <<0, 74857>>, <<0, 82037>>, <<0, 520257>>, <<0, 510017>>,
    <<0, 521281>>, <<0, 521281>>, <<0, 514113>>, <<0, 513089>>,
    <<0, 86121>>, <<0, 89205>>, <<0, 503873>>, <<0, 510017>>, <<0, 506945>>,
    <<0, 92281>>, <<0, 114753>>, <<0, 62465>>, <<0, 126017>>, <<0, 115777>>,
    <<0, 129089>>, <<0, 136257>>, <<0, 135233>>, <<0, 137281>>,
    <<0, 137301>>, <<0, 135253>>, <<0, 451650>>, <<0, 158805>>,
    <<0, 118853>>, <<0, 145473>>, <<0, 78917>>, <<0, 114757>>,
    <<0, 151617>>, <<0, 73809>>, <<0, 158785>>, <<0, 158785>>, <<0, 76865>>,
    <<0, 81997>>, <<0, 143433>>, <<0, 0>>, <<0, 150593>>, <<0, 99401>>,
    <<0, 109633>>, <<0, 154689>>, <<0, 102481>>, <<0, 100425>>,
    <<0, 151625>>, <<0, 94281>>, <<0, 137301>>, <<0, 84033>>, <<0, 168001>>,
    <<0, 88129>>, <<0, 46165>>, <<0, 0>>, <<0, 133205>>, <<0, 0>>,
    <<0, 85057>>, <<0, 170049>>, <<0, 471121>>, <<0, 192577>>,
    <<0, 186449>>, <<0, 81985>>, <<0, 145473>>, <<0, 193601>>,
    <<0, 168021>>, <<0, 165973>>, <<0, 168021>>, <<0, 170069>>,
    <<0, 169045>>, <<0, 177217>>, <<0, 151617>>, <<0, 153665>>,
    <<0, 68674>>, <<0, 168001>>, <<0, 70737>>, <<0, 183362>>, <<0, 130129>>,
    <<0, 102477>>, <<0, 163905>>, <<0, 170061>>, <<0, 128065>>, <<0, 0>>,
    <<0, 65>>, <<0, 2113>>, <<0, 65>>, <<0, 20561>>, <<0, 107609>>,
    <<0, 90177>>, <<0, 65>>, <<0, 114753>>, <<0, 3137>>, <<0, 12357>>,
    <<0, 10305>>, <<0, 7233>>, <<0, 5185>>, <<0, 95301>>, <<0, 130125>>,
    <<0, 86093>>, <<0, 11337>>, <<0, 1089>>, <<0, 5189>>, <<0, 25669>>,
    <<0, 2113>>, <<0, 7233>>, <<0, 14401>>, <<0, 12353>>, <<0, 9289>>,
    <<0, 12353>>, <<0, 25673>>, <<0, 30809>>, <<0, 27737>>, <<0, 4161>>,
    <<0, 58457>>, <<0, 62529>>, <<0, 2113>>, <<0, 63553>>, <<0, 5185>>,
    <<0, 60481>>, <<0, 5185>>, <<0, 5185>>, <<0, 51273>>, <<0, 439401>>,
    <<0, 15425>>, <<0, 15425>>, <<0, 11329>>, <<0, 11329>>, <<0, 7233>>,
    <<0, 7233>>, <<0, 52289>>, <<0, 41025>>, <<0, 64577>>, <<0, 64577>>,
    <<0, 31809>>, <<0, 105541>>, <<0, 27713>>, <<0, 27713>>, <<0, 128081>>,
    <<0, 61521>>, <<0, 20545>>, <<0, 104513>>, <<0, 36929>>, <<0, 18497>>,
    <<0, 9281>>, <<0, 9281>>, <<0, 28737>>, <<0, 0>>, <<0, 7234>>,
    <<0, 254019>>, <<0, 362561>>, <<0, 68>>, <<0, 0>>, <<0, 361537>>,
    <<0, 0>>, <<0, 12353>>, <<0, 0>>, <<0, 0>>, <<0, 326724>>, <<0, 0>>,
    <<0, 0>>, <<0, 0>>, <<0, 0>>, <<0, 0>>, <<0, 0>>, <<0, 0>>,
    <<0, 378961>>, <<0, 0>>, <<0, 0>>, <<0, 0>>, <<0, 0>>, <<0, 0>>,
    <<0, 0>>, <<0, 0>>, <<0, 0>>, <<0, 0>>, <<0, 0>>, <<0, 0>>, <<0, 0>>,
    <<0, 334951>>, <<0, 0>>, <<0, 0>>, <<0, 0>>, <<0, 0>>, <<0, 0>>,
    <<0, 0>>, <<0, 0>>, <<0, 0>>, <<0, 0>>, <<0, 0>>, <<0, 0>>, <<0, 0>>,
    <<0, 0>>, <<0, 0>>, <<0, 0>>, <<0, 0>>, <<0, 348279>>, <<0, 0>>,
    <<0, 0>>, <<0, 0>>, <<0, 0>>, <<0, 0>>, <<0, 0>>, <<0, 0>>, <<0, 0>>,
    <<0, 0>>, <<0, 0>>, <<0, 0>>, <<0, 0>>, <<0, 0>>, <<0, 191554>>,
    <<0, 302145>>, <<0, 377921>>, <<0, 71745>>, <<0, 96325>>, <<0, 194625>>,
    <<0, 68674>>, <<0, 192579>>, <<0, 86081>>, <<0, 310337>>, <<0, 80961>>,
    <<0, 106561>>, <<0, 89153>>, <<0, 306257>>, <<0, 76866>>, <<0, 101441>>,
    <<0, 98369>>, <<0, 120897>>, <<0, 105537>>, <<0, 74837>>, <<0, 111681>>,
    <<0, 111681>>, <<0, 130113>>, <<0, 106561>>, <<0, 24641>>,
    <<0, 100417>>, <<0, 115797>>, <<0, 129089>>, <<0, 91207>>, <<0, 87107>>,
    <<0, 373827>>, <<0, 171085>>, <<0, 158787>>, <<0, 346178>>,
    <<0, 266343>>, <<0, 109636>>, <<0, 33859>>, <<0, 36929>>, <<0, 101443>>,
    <<0, 48193>>, <<0, 150596>>, <<0, 99397>>, <<0, 91201>>, <<0, 275575>>,
    <<0, 179277>>, <<0, 149581>>, <<0, 90177>>, <<0, 235597>>,
    <<0, 330821>>, <<0, 329799>>, <<0, 121922>>, <<0, 327750>>,
    <<0, 127047>>, <<0, 114757>>, <<0, 110669>>, <<0, 279671>>,
    <<0, 114753>>, <<0, 133190>>, <<0, 132165>>, <<0, 117826>>,
    <<0, 85077>>, <<0, 137282>>, <<0, 57414>>, <<0, 135239>> >>

MainGuide ==
    <<
    101, 0, 65, 0, 65, 0, 1, 0, 65, 0, 1, 104, 101, 0, 65, 0, 1, 106, 1, 0,
    1, 109, 65, 0, 65, 0, 1, 0, 89, 0, 65, 0, 65, 0, 65, 0, 65, 0, 65, 0, 1,
    0, 69, 0, 65, 0, 65, 0, 65, 0, 65, 0, 65, 0, 65, 0, 65, 0, 65, 0, 65, 0,
    65, 0, 65, 97, 65, 103, 65, 97, 1, 109, 65, 117, 73, 0, 1, 0, 1, 117,
    65, 0, 1, 101, 117, 0, 65, 0, 65, 0, 1, 111, 65, 0, 1, 118, 1, 103, 101,
    0, 111, 106, 65, 0, 1, 0, 65, 0, 65, 0, 65, 97, 1, 0, 65, 0, 65, 0, 1,
    109, 65, 0, 1, 0, 1, 0, 1, 109, 1, 101, 101, 111, 1, 101, 1, 121, 1,
    111, 106, 101, 1, 111, 111, 109, 1, 0, 65, 97, 65, 104, 101, 117, 109,
    117, 1, 0, 106, 117, 1, 0, 1, 0, 106, 121, 65, 104, 1, 105, 1, 121, 97,
    0, 1, 121, 1, 101, 1, 0, 1, 117, 1, 0, 65, 0, 1, 0, 101, 0, 65, 0, 1,
    111, 1, 116, 111, 0, 109, 111, 1, 0, 1, 0, 116, 103, 109, 0, 111, 107,
    108, 116, 110, 0, 118, 0, 111, 110, 116, 0, 114, 0, 111, 112, 108, 111,
    105, 115, 65, 0, 1, 0, 101, 116, 97, 0, 105, 0, 1, 0, 1, 0, 1, 0, 111,
    0, 118, 0, 108, 0, 1, 0, 1, 0, 1, 0, 97, 0, 65, 106, 65, 104, 65, 109,
    65, 104, 65, 105, 65, 0, 65, 0, 65, 97, 73, 0, 65, 105, 65, 0, 65, 0,
    65, 0, 65, 0, 65, 0, 65, 117, 65, 0, 65, 0, 65, 105, 65, 0, 65, 0, 73,
    0, 73, 0, 65, 0, 65, 0, 73, 0, 65, 105, 65, 0, 65, 0, 65, 0, 65, 0, 65,
    0, 65, 0, 65, 0, 65, 0, 65, 104, 65, 0, 65, 0, 65, 0, 65, 0, 65, 0, 65,
    0, 65, 0, 65, 0, 65, 0, 65, 0, 65, 0, 65, 0, 65, 0, 65, 69, 65, 0, 65,
    0, 65, 0, 65, 0, 65, 0, 81, 0, 81, 0, 65, 0, 65, 0, 81, 0, 81, 0, 65, 0,
    65, 0, 77, 0, 65, 0, 65, 0, 65, 0, 65, 0, 61, 0, 65, 0, 0, 0, 0, 0, 65,
    0, 1, 118, 1, 109, 65, 0, 65, 0, 0, 0, 0, 0, 1, 0, 0, 0, 10, 0, 1, 0,
    65, 0, 65, 0, 65, 0, 65, 0, 65, 0, 65, 0, 81, 0, 0, 0, 61, 0, 65, 0, 65,
    0, 65, 0, 1, 0, 65, 0, 1, 0, 65, 0, 1, 111, 0, 0, 0, 0, 99, 0, 1, 101,
    1, 109, 109, 117, 1, 109, 1, 0, 1, 0, 1, 0, 1, 0, 1, 0, 65, 0, 89, 0, 1,
    0, 1, 121, 65, 0, 89, 0, 65, 0, 69, 0, 69, 0, 65, 0, 1, 0, 1, 0, 69, 0,
    65, 0, 69, 0, 1, 0, 77, 0, 65, 105, 66, 0, 77, 0, 66, 0, 65, 0, 65, 0,
    69, 0, 65, 0, 65, 0, 119, 0, 65, 0, 65, 0, 65, 0, 65, 0, 65, 0, 65, 0,
    65, 0, 65, 0, 65, 0, 73, 0, 65, 0, 65, 0, 0, 0, 65, 0, 65, 0, 85, 0, 66,
    0, 65, 0, 65, 0, 65, 0, 65, 0, 65, 0, 85, 0, 85, 0, 85, 0, 65, 0, 0, 0,
    65, 0, 0, 0, 81, 0, 85, 0, 61, 0, 65, 0, 65, 0, 81, 0, 77, 0, 77, 0, 65,
    0, 65, 0, 65, 0, 65, 0, 65, 0, 65, 0, 77, 0, 77, 0, 81, 0, 67, 0, 65, 0,
    65, 0, 65, 0, 65, 0, 67, 0, 65, 0, 65, 0, 0, 0, 65, 0, 65, 0, 65, 0, 65,
    0, 65, 0, 89, 0, 66, 0, 89, 0, 69, 0, 65, 0, 65, 0, 69, 0, 69, 0, 65, 0,
    65, 0, 65, 0, 65, 0, 65, 0, 65, 0, 65, 0, 73, 0, 73, 0, 73, 0, 65, 0,
    65, 0, 73, 0, 65, 0, 65, 0, 65, 0, 65, 0, 65, 0, 85, 0, 65, 0, 85, 0,
    85, 0, 85, 0, 65, 0, 65, 0, 65, 0, 1, 0, 85, 0, 85, 0, 85, 0, 85, 0, 65,
    0, 65, 0, 65, 0, 65, 69, 81, 0, 65, 0, 81, 0, 65, 0, 81, 0, 65, 0, 65,
    0, 65, 0, 65, 0, 77, 0, 77, 0, 65, 0, 65, 0, 65, 0, 81, 68, 0, 0, 103,
    67, 81, 0, 61, 81, 103, 0, 0, 0, 61, 103, 0, 0, 103, 68, 0, 0, 0, 0,
    119, 0, 0, 0, 0, 0, 0, 0, 0, 0, 0, 0, 0, 0, 0, 0, 61, 119, 0, 0, 0, 0,
    0, 0, 0, 0, 0, 0, 0, 0, 0, 0, 0, 0, 0, 0, 0, 0, 0, 0, 0, 0, 61, 0, 0, 0,
    0, 0, 0, 0, 0, 0, 0, 0, 0, 0, 0, 0, 0, 0, 0, 0, 0, 0, 0, 0, 0, 0, 0, 0,
    0, 0, 0, 0, 0, 0, 61, 0, 0, 0, 0, 0, 0, 0, 0, 0, 0, 0, 0, 0, 0, 0, 0, 0,
    0, 0, 0, 0, 0, 0, 0, 0, 0, 0, 81, 0, 61, 119, 119, 0, 103, 66, 65, 0,
    81, 66, 103, 67, 81, 0, 81, 0, 61, 0, 103, 0, 66, 0, 71, 0, 61, 119,
    103, 0, 68, 0, 66, 0, 67, 0, 69, 0, 65, 0, 65, 0, 70, 0, 85, 0, 66, 0,
    66, 0, 77, 0, 65, 0, 67, 0, 103, 0, 65, 0, 119, 0, 65, 0, 81, 0, 119,
    67, 61, 0, 65, 0, 65, 68, 65, 0, 103, 0, 65, 0, 81, 69, 65, 0, 71, 0,
    61, 0, 65, 0, 65, 0, 71, 0, 65, 0, 119, 70, 119, 0, 103, 69, 119, 0, 65,
    0, 103, 0, 65, 0, 61, 0, 65, 66, 81, 0, 81, 70, 65, 0, 65, 0, 81, 69,
    65, 71, 81, 0 >>

MainParadigms ==
    <<
    <<0, 1, 2, 3, 4, 0, 1, 2, 3, 4, 0, 0, 0, 0, 0>>,
    <<5, 6, 7, 8, 9, 7, 6, 10, 11, 6, 12, 13, 5, 6, 7, 8, 9, 10, 11, 12, 13, 14, 15, 16, 0, 0, 0, 0, 0, 0, 0, 0, 0, 0, 0, 0>>,
    <<10, 5, 8, 5, 14, 7, 6, 15, 11, 15, 12, 13, 17, 18, 19, 20, 21, 22, 23, 24, 25, 26, 27, 28, 0, 0, 0, 0, 0, 0, 0, 0, 0, 0, 0, 0>>,
    <<10, 5, 8, 10, 14, 7, 6, 15, 11, 6, 12, 13, 29, 30, 31, 32, 33, 34, 35, 36, 37, 38, 39, 40, 0, 0, 0, 0, 0, 0, 0, 0, 0, 0, 0, 0>>,
    <<16, 5, 8, 16, 14, 7, 5, 10, 11, 5, 12, 13, 41, 42, 43, 44, 45, 46, 47, 48, 49, 50, 51, 52, 0, 0, 0, 0, 0, 0, 0, 0, 0, 0, 0, 0>>,
    <<17, 18, 19, 18, 17, 20, 14, 21, 9, 9, 22, 9, 9, 23, 18, 19, 23, 20, 14, 24, 25, 20, 25, 24, 26, 25, 27, 27, 53, 54, 55, 56, 57, 58, 59, 60, 61, 62, 63, 64, 65, 66, 67, 68, 69, 70, 71, 72, 73, 74, 75, 76, 77, 78, 79, 80, 0, 0, 0, 0, 0, 0, 0, 0, 0, 0, 0, 0, 0, 0, 0, 0, 0, 0, 0, 0, 0, 0, 0, 0, 0, 0, 0, 1>>,
    <<16, 18, 19, 16, 28, 14, 81, 82, 83, 84, 85, 86, 0, 0, 0, 0, 0, 0>>,
    <<10, 87, 0>> >>

MainSuffixes ==
    <<
    "t", "l", "la", "lo", "li", "a", "y", "e", "u", "oj", "", "am", "ami",
    "ah", "om", "ov", "o", "yj", "ogo", "omu", "ym", "aja", "uju", "oe",
    "ye", "yh", "ymi", "ee", "im" >>

MainGramtab ==
    <<
    "INFN,impf,tran", "VERB,impf,tran masc,sing,past,indc",
    "VERB,impf,tran femn,sing,past,indc",
    "VERB,impf,tran neut,sing,past,indc", "VERB,impf,tran plur,past,indc",
    "NOUN,inan,femn sing,nomn", "NOUN,inan,femn sing,gent",
    "NOUN,inan,femn sing,datv", "NOUN,inan,femn sing,accs",
    "NOUN,inan,femn sing,ablt", "NOUN,inan,femn sing,loct",
    "NOUN,inan,femn plur,nomn", "NOUN,inan,femn plur,gent",
    "NOUN,inan,femn plur,datv", "NOUN,inan,femn plur,accs",
    "NOUN,inan,femn plur,ablt", "NOUN,inan,femn plur,loct",
    "NOUN,anim,masc sing,nomn", "NOUN,anim,masc sing,gent",
    "NOUN,anim,masc sing,datv", "NOUN,anim,masc sing,accs",
    "NOUN,anim,masc sing,ablt", "NOUN,anim,masc sing,loct",
    "NOUN,anim,masc plur,nomn", "NOUN,anim,masc plur,gent",
    "NOUN,anim,masc plur,datv", "NOUN,anim,masc plur,accs",
    "NOUN,anim,masc plur,ablt", "NOUN,anim,masc plur,loct",
    "NOUN,inan,masc sing,nomn", "NOUN,inan,masc sing,gent",
    "NOUN,inan,masc sing,datv", "NOUN,inan,masc sing,accs",
    "NOUN,inan,masc sing,ablt", "NOUN,inan,masc sing,loct",
    "NOUN,inan,masc plur,nomn", "NOUN,inan,masc plur,gent",
    "NOUN,inan,masc plur,datv", "NOUN,inan,masc plur,accs",
    "NOUN,inan,masc plur,ablt", "NOUN,inan,masc plur,loct",
    "NOUN,inan,neut sing,nomn", "NOUN,inan,neut sing,gent",
    "NOUN,inan,neut sing,datv", "NOUN,inan,neut sing,accs",
    "NOUN,inan,neut sing,ablt", "NOUN,inan,neut sing,loct",
    "NOUN,inan,neut plur,nomn", "NOUN,inan,neut plur,gent",
    "NOUN,inan,neut plur,datv", "NOUN,inan,neut plur,accs",
    "NOUN,inan,neut plur,ablt", "NOUN,inan,neut plur,loct",
    "ADJF,Qual masc,sing,nomn", "ADJF,Qual masc,sing,gent",
    "ADJF,Qual masc,sing,datv", "ADJF,Qual anim,masc,sing,accs",
    "ADJF,Qual inan,masc,sing,accs", "ADJF,Qual masc,sing,ablt",
    "ADJF,Qual masc,sing,loct", "ADJF,Qual femn,sing,nomn",
    "ADJF,Qual femn,sing,gent", "ADJF,Qual femn,sing,datv",
    "ADJF,Qual femn,sing,accs", "ADJF,Qual femn,sing,ablt",
    "ADJF,Qual femn,sing,loct", "ADJF,Qual neut,sing,nomn",
    "ADJF,Qual neut,sing,gent", "ADJF,Qual neut,sing,datv",
    "ADJF,Qual neut,sing,accs", "ADJF,Qual neut,sing,ablt",
    "ADJF,Qual neut,sing,loct", "ADJF,Qual plur,nomn",
    "ADJF,Qual plur,gent", "ADJF,Qual plur,datv",
    "ADJF,Qual anim,plur,accs", "ADJF,Qual inan,plur,accs",
    "ADJF,Qual plur,ablt", "ADJF,Qual plur,loct", "COMP,Qual",
    "COMP,Qual Cmp2", "NPRO,neut sing,nomn", "NPRO,neut sing,gent",
    "NPRO,neut sing,datv", "NPRO,neut sing,accs", "NPRO,neut sing,ablt",
    "NPRO,neut sing,loct", "ADVB" >>


MainAnalyzer ==
    [words |-> [dict |-> [units |-> MainUnits], guide |-> [units |-> MainGuide]],
     paradigms |-> MainParadigms,
     suffixes |-> MainSuffixes,
     gramtab |-> MainGramtab]

\* the lexemes the tables were compiled from: <<paradigm id, stem>>
MainLexemes ==
    {<<0, "pi">>, <<1, "gor">>, <<1, "pil">>, <<2, "kot">>, <<3, "stol">>,
     <<4, "sel">>, <<5, "nov">>, <<6, "et">>, <<7, "tam">>}

\* a loadable lexicon whose tables are inconsistent with each other
BrokenUnits ==
    <<
    <<0, 0>>, <<0, 0>>, <<0, 11265>>, <<0, 2049>>, <<0, 8193>>,
    <<0, 14337>>, <<0, 21505>>, <<0, 22529>>, <<0, 0>>, <<0, 4097>>,
    <<0, 0>>, <<0, 4097>>, <<0, 0>>, <<0, 0>>, <<0, 0>>, <<0, 23553>>,
    <<0, 0>>, <<0, 11265>>, <<0, 0>>, <<0, 0>>, <<0, 0>>, <<0, 64573>>,
    <<0, 0>>, <<0, 60477>>, <<0, 0>>, <<0, 0>>, <<0, 0>>, <<0, 0>>,
    <<0, 0>>, <<0, 0>>, <<0, 0>>, <<0, 0>>, <<0, 0>>, <<0, 0>>, <<0, 0>>,
    <<0, 0>>, <<0, 0>>, <<0, 0>>, <<0, 8458>>, <<0, 0>>, <<0, 0>>, <<0, 0>>,
    <<0, 0>>, <<0, 0>>, <<0, 0>>, <<0, 0>>, <<1, 0>>, <<0, 0>>, <<0, 0>>,
    <<0, 0>>, <<0, 0>>, <<0, 0>>, <<0, 0>>, <<0, 0>>, <<0, 0>>, <<0, 0>>,
    <<0, 0>>, <<0, 0>>, <<0, 0>>, <<0, 0>>, <<0, 0>>, <<0, 0>>, <<0, 0>>,
    <<0, 0>>, <<0, 84033>>, <<0, 0>>, <<0, 0>>, <<0, 109671>>, <<0, 0>>,
    <<0, 0>>, <<0, 0>>, <<0, 0>>, <<0, 94273>>, <<0, 0>>, <<0, 97345>>,
    <<0, 0>>, <<0, 93249>>, <<0, 93249>>, <<0, 89153>>, <<0, 0>>,
    <<0, 76865>>, <<0, 0>>, <<0, 79937>>, <<0, 115777>>, <<0, 75841>>,
    <<0, 73793>>, <<0, 120897>>, <<0, 73793>>, <<0, 126017>>, <<0, 122945>>,
    <<0, 128065>>, <<0, 114753>>, <<0, 112705>>, <<0, 126017>>, <<0, 0>>,
    <<0, 110657>>, <<0, 86081>>, <<0, 77889>>, <<0, 80965>>, <<0, 102497>>,
    <<0, 104548>>, <<0, 119919>>, <<0, 103526>>, <<0, 101479>>,
    <<0, 111720>>, <<0, 105569>>, <<0, 80961>>, <<0, 71753>>, <<0, 92225>>,
    <<0, 103533>>, <<0, 68685>>, <<0, 90185>>, <<0, 125040>>, <<0, 121969>>,
    <<0, 76865>>, <<0, 76865>>, <<0, 91217>>, <<0, 67649>>, <<0, 75841>>,
    <<0, 77889>>, <<0, 82001>>, <<0, 95297>>, <<0, 84033>>, <<0, 65602>>,
    <<0, 83043>>, <<0, 86081>> >>

BrokenGuide ==
    <<
    100, 0, 0, 0, 65, 0, 65, 97, 65, 0, 65, 0, 65, 0, 65, 0, 0, 0, 65, 97,
    0, 0, 65, 111, 0, 0, 0, 0, 0, 0, 65, 0, 0, 0, 65, 0, 0, 0, 0, 0, 0, 0,
    61, 0, 0, 0, 10, 0, 0, 0, 0, 0, 0, 0, 0, 0, 0, 0, 0, 0, 0, 0, 0, 0, 0,
    0, 0, 0, 0, 0, 0, 0, 0, 0, 0, 0, 0, 0, 0, 0, 0, 0, 0, 0, 0, 0, 0, 0, 0,
    0, 0, 0, 0, 0, 0, 0, 0, 0, 0, 0, 0, 0, 0, 0, 0, 0, 0, 0, 0, 0, 0, 0, 0,
    0, 0, 0, 0, 0, 0, 0, 0, 0, 0, 0, 0, 0, 0, 0, 65, 0, 0, 0, 0, 0, 61, 0,
    0, 0, 0, 0, 0, 0, 0, 0, 65, 0, 0, 0, 65, 0, 0, 0, 65, 0, 65, 0, 65, 0,
    0, 0, 65, 0, 0, 0, 65, 0, 73, 0, 65, 0, 65, 0, 65, 0, 99, 0, 77, 0, 65,
    0, 69, 0, 65, 0, 65, 0, 73, 0, 0, 0, 65, 0, 65, 0, 65, 0, 65, 0, 1, 0,
    1, 102, 1, 0, 1, 103, 1, 104, 1, 109, 1, 0, 81, 0, 65, 0, 65, 0, 1, 112,
    65, 0, 65, 0, 1, 113, 1, 0, 66, 0, 65, 0, 65, 0, 65, 0, 65, 0, 65, 0,
    61, 0, 103, 0, 61, 0, 65, 0, 65, 0, 81, 0 >>

BrokenParadigms ==
    <<
    <<0, 1, 0, 1, 0, 0>>,
    <<9, 0, 0>>,
    <<0, 1, 0, 9, 0, 0>>,
    <<0, 0, 5>>,
    <<2, 0, 1>> >>

BrokenSuffixes ==
    <<
    "", "a", "o" >>

BrokenGramtab ==
    <<
    "NOUN,anim,masc sing,nomn", "NOUN,anim,masc sing,gent" >>

\* Lexeme 0 (m, ma) is consistent.  The other keys of the index point at
\* cells the other tables do not have: f -> (0, 2) and g -> (0, 4) have a
\* form index >= N, h -> (7, 0) a paradigm id outside the store, q -> (1, 0) a
\* suffix id outside the suffixes, da -> (2, 1) a tag id outside the gramtab
\* (d -> (2, 0) is its sound sibling), p -> (3, 0) a prefix id outside
\* paradigmPrefixes, and po -> (4, 0) a prefix and a suffix that overlap in
\* the word.
BrokenAnalyzer ==
    [words |-> [dict |-> [units |-> BrokenUnits],
                guide |-> [units |-> BrokenGuide]],
     paradigms |-> BrokenParadigms,
     suffixes |-> BrokenSuffixes,
     gramtab |-> BrokenGramtab]

\* the number of units a truncated index keeps
TruncatedLen == 100

\* the same index with its unit array cut short: transitions lead past it
TruncatedAnalyzer ==
    [BrokenAnalyzer EXCEPT
        !.words.dict.units = SubSeq(BrokenUnits, 1, TruncatedLen)]

\* the same index with its guide cut short
ShortGuideAnalyzer ==
    [BrokenAnalyzer EXCEPT
        !.words.guide.units = SubSeq(BrokenGuide, 1, 2 * TruncatedLen)]

\* an index whose payloads are not all what the compiler of the dictionary
\* writes: undecodable, short, long, unterminated and broken by a line feed
OddUnits ==
    <<
    <<0, 0>>, <<0, 63553>>, <<0, 8193>>, <<0, 10241>>, <<0, 8193>>,
    <<0, 14337>>, <<0, 8193>>, <<0, 10241>>, <<0, 44065>>, <<0, 6145>>,
    <<0, 44093>>, <<0, 68673>>, <<0, 48196>>, <<0, 0>>, <<0, 0>>, <<0, 0>>,
    <<0, 0>>, <<0, 8193>>, <<0, 0>>, <<0, 0>>, <<0, 0>>, <<0, 0>>, <<0, 0>>,
    <<0, 0>>, <<0, 0>>, <<0, 0>>, <<0, 0>>, <<0, 0>>, <<0, 64573>>,
    <<0, 63551>>, <<0, 0>>, <<0, 0>>, <<0, 0>>, <<0, 0>>, <<0, 63>>,
    <<0, 0>>, <<0, 7271>>, <<1, 0>>, <<0, 108647>>, <<0, 59455>>,
    <<0, 58401>>, <<0, 12554>>, <<0, 0>>, <<0, 0>>, <<0, 0>>, <<0, 0>>,
    <<0, 24586>>, <<0, 0>>, <<0, 43041>>, <<0, 42047>>, <<0, 0>>, <<0, 0>>,
    <<1, 0>>, <<0, 0>>, <<0, 0>>, <<0, 0>>, <<0, 0>>, <<0, 0>>, <<0, 0>>,
    <<0, 18465>>, <<0, 0>>, <<0, 0>>, <<0, 27914>>, <<0, 0>>, <<0, 0>>,
    <<0, 120935>>, <<0, 100433>>, <<0, 0>>, <<0, 0>>, <<0, 0>>, <<0, 0>>,
    <<0, 0>>, <<0, 92225>>, <<0, 0>>, <<0, 96321>>, <<0, 90177>>,
    <<0, 92225>>, <<0, 90177>>, <<0, 91201>>, <<0, 0>>, <<0, 105591>>,
    <<0, 0>>, <<0, 100417>>, <<0, 73793>>, <<0, 75841>>, <<0, 74817>>,
    <<0, 129089>>, <<0, 73793>>, <<0, 116801>>, <<0, 121925>>,
    <<0, 109637>>, <<0, 118853>>, <<0, 22631>>, <<0, 0>>, <<0, 119877>>,
    <<0, 0>>, <<0, 114785>>, <<0, 101473>>, <<0, 99426>>, <<0, 105571>>,
    <<0, 99428>>, <<0, 101477>>, <<0, 99430>>, <<0, 113767>>, <<0, 107624>>,
    <<0, 93257>>, <<0, 94273>>, <<0, 96321>>, <<0, 87105>>, <<0, 96325>>,
    <<0, 84033>>, <<0, 87105>>, <<0, 86081>>, <<0, 64573>>, <<0, 80961>>,
    <<0, 73021>>, <<0, 75841>>, <<0, 86085>>, <<0, 79940>>, <<0, 83009>>,
    <<0, 97345>>, <<0, 86089>>, <<0, 70722>>, <<0, 65601>>, <<0, 64577>>,
    <<0, 61505>>, <<0, 74817>>, <<0, 64577>> >>

OddGuide ==
    <<
    97, 0, 65, 0, 65, 0, 33, 0, 65, 0, 65, 0, 63, 0, 65, 0, 10, 0, 65, 0,
    61, 0, 68, 0, 10, 0, 0, 0, 0, 0, 0, 0, 0, 0, 65, 0, 0, 0, 0, 0, 0, 0, 0,
    0, 0, 0, 0, 0, 0, 0, 0, 0, 0, 0, 0, 0, 10, 0, 10, 0, 0, 0, 0, 0, 0, 0,
    0, 0, 63, 0, 0, 0, 10, 0, 0, 0, 61, 0, 63, 0, 33, 65, 0, 0, 0, 0, 0, 0,
    0, 0, 0, 0, 65, 0, 0, 0, 33, 0, 63, 0, 0, 0, 0, 0, 0, 0, 0, 0, 0, 0, 0,
    0, 0, 0, 0, 0, 0, 0, 33, 0, 0, 0, 0, 0, 0, 0, 0, 0, 0, 0, 61, 0, 73, 0,
    0, 0, 0, 0, 0, 0, 0, 0, 0, 0, 65, 0, 0, 0, 65, 0, 65, 0, 65, 0, 65, 0,
    65, 0, 0, 0, 61, 0, 0, 0, 69, 81, 69, 0, 69, 0, 69, 0, 69, 0, 69, 0, 65,
    0, 65, 0, 65, 0, 65, 0, 65, 0, 0, 0, 65, 0, 0, 0, 1, 0, 1, 98, 1, 99, 1,
    100, 1, 101, 1, 102, 1, 103, 1, 104, 97, 0, 68, 0, 65, 0, 65, 0, 65, 0,
    65, 0, 65, 0, 65, 0, 10, 0, 61, 0, 65, 0, 10, 0, 65, 0, 61, 73, 66, 0,
    103, 0, 119, 0, 65, 0, 65, 0, 103, 0, 103, 0, 103, 0, 61, 0, 65, 0 >>

\* the keys it was compiled from: <<word, bytes of the payload>>, the payloads
\* being "!!!!\n", "AAEAAg==\n"; "AAE=\n", "AAIAAw==\n", "AQIDBA==\n";
\* "AAEAAgAD\n"; "AAEAAg==", "AAEAAg==\n"; "AAEA\nAg==\n"; "????\n"; "AAEAAg\n";
\* "AAAAAA==\n"
OddKeys ==
    {<<"a", <<33, 33, 33, 33, 10>>>>,
     <<"a", <<65, 65, 69, 65, 65, 103, 61, 61, 10>>>>,
     <<"b", <<65, 65, 69, 61, 10>>>>,
     <<"b", <<65, 65, 73, 65, 65, 119, 61, 61, 10>>>>,
     <<"b", <<65, 81, 73, 68, 66, 65, 61, 61, 10>>>>,
     <<"c", <<65, 65, 69, 65, 65, 103, 65, 68, 10>>>>,
     <<"d", <<65, 65, 69, 65, 65, 103, 61, 61>>>>,
     <<"d", <<65, 65, 69, 65, 65, 103, 61, 61, 10>>>>,
     <<"e", <<65, 65, 69, 65, 10, 65, 103, 61, 61, 10>>>>,
     <<"f", <<63, 63, 63, 63, 10>>>>,
     <<"g", <<65, 65, 69, 65, 65, 103, 10>>>>,
     <<"ha", <<65, 65, 65, 65, 65, 65, 61, 61, 10>>>>}

OddAnalyzer ==
    [words |-> [dict |-> [units |-> OddUnits], guide |-> [units |-> OddGuide]],
     paradigms |-> MainParadigms,
     suffixes |-> MainSuffixes,
     gramtab |-> MainGramtab]

-----------------------------------------------------------------------------
(* The operations under test *)

MaxTokens == 2

\* the surface forms of the lexemes ls under the tables an
SurfaceForms(an, ls) ==
    UNION { { FormOf(an, At(an.paradigms, l[1]),
                     Len(At(an.paradigms, l[1])) \div 3, l[2], i) :
                i \in 0 .. (Len(At(an.paradigms, l[1])) \div 3) - 1 } :
            l \in ls }

RECURSIVE PhrasesOf(_, _)

\* the phrases of exactly k tokens over a vocabulary
PhrasesOf(tokens, k) ==
    IF k = 1 THEN tokens
    ELSE { p \o " " \o w : p \in PhrasesOf(tokens, k - 1), w \in tokens }

Phrases(tokens) == UNION { PhrasesOf(tokens, k) : k \in 2 .. MaxTokens }

UnknownWords == {"xyz", "kotx", "ko", "novy", "po"}
PaddedWords == {"KOT", "Gory", " kota ", "\tnovaja\n", " XYZ"}
EmptyInputs == {"", " ", " \t\n "}
PhraseTokens == {"novaja", "gora", "kota", "eto", "v", "xyz"}
MorePhrases ==
    {"novaja  gora", " Novyj\tKOT ", "v  xyz", "novyj stol", "novoe selo",
     "pila gora", "tam kot", "novuju pilu", "ponovee stol", "v novom sele",
     "novyh kotov", "novyj stol v sele"}

MainInputs ==
    SurfaceForms(MainAnalyzer, MainLexemes) \cup UnknownWords
        \cup PaddedWords \cup EmptyInputs \cup Phrases(PhraseTokens)
        \cup MorePhrases

BrokenTokens ==
    {"m", "ma", "f", "g", "h", "q", "d", "da", "p", "po", "zz"}
BrokenInputs == BrokenTokens \cup EmptyInputs \cup Phrases(BrokenTokens)

\* tables that satisfy the invariants of the data files, with the inputs
\* asked of them
WellFormed == { [an |-> MainAnalyzer, inputs |-> MainInputs] }

\* tables the loader accepts although they are inconsistent
Inconsistent ==
    { [an |-> BrokenAnalyzer, inputs |-> BrokenInputs],
      [an |-> TruncatedAnalyzer, inputs |-> BrokenInputs],
      [an |-> ShortGuideAnalyzer, inputs |-> BrokenInputs] }

Loadable == WellFormed \cup Inconsistent

\* the words handed to get
GetWords ==
    SurfaceForms(MainAnalyzer, MainLexemes) \cup UnknownWords
        \cup {"", "KOT", "p", "pi", "novo", "novoju", "tamx"}
OddWords == {"", "a", "b", "c", "d", "e", "f", "g", "h", "ha", "x", "ab"}

\* indexes that are well-formed DAWGs with a consistent guide
Indexes ==
    {[an |-> MainAnalyzer, inputs |-> GetWords],
     [an |-> OddAnalyzer, inputs |-> OddWords]}

RestQuery ==
    /\ analyzer = MainAnalyzer
    /\ arg = ""
    /\ op = NoResult
    /\ ret = Ret(<< >>)

StartQuery(tables) ==
    /\ \E t \in tables :
          /\ analyzer = t.an
          /\ arg \in t.inputs
    /\ op = NoResult
    /\ ret = Ret(<< >>)

\* what get returns, as the result of an operation
getResult(g) == [fault |-> g.fault, val |-> g.entries]

CallGet ==
    /\ op = NoResult
    /\ op' = "get"
    /\ ret' = getResult(get(analyzer.words, arg))
    /\ UNCHANGED <<analyzer, arg>>

CallWordForms ==
    /\ op = NoResult
    /\ op' = "WordForms"
    /\ ret' = WordForms(analyzer, arg)
    /\ UNCHANGED <<analyzer, arg>>

CallTag ==
    /\ op = NoResult
    /\ op' = "Tag"
    /\ ret' = Tag(analyzer, arg)
    /\ UNCHANGED <<analyzer, arg>>

CallPhraseFormsConcordant ==
    /\ op = NoResult
    /\ op' = "PhraseFormsConcordant"
    /\ ret' = PhraseFormsConcordant(analyzer, arg)
    /\ UNCHANGED <<analyzer, arg>>

\* the adjectives and other words handed to inflectAdj
AdjWords == {"novyj", "novuju", "kot"}
Genders == {"masc", "femn", "neut", ""}
Animacies == {"anim", "inan", ""}

\* the calls of inflectAdj: every case, number, gender and animacy
AdjCalls ==
    [word : AdjWords, cas : Range(cases), number : Range(numbers),
     gender : Genders, animacy : Animacies]

StartAdj ==
    /\ analyzer = MainAnalyzer
    /\ arg \in AdjCalls
    /\ op = NoResult
    /\ ret = Ret(<< >>)

\* a.inflectAdj(word, cas, number, gender, animacy): the call of inflect it
\* makes and what it returns
CallInflectAdj ==
    /\ op = NoResult
    /\ op' = "inflectAdj"
    /\ \E r \in {inflectAdj(analyzer, arg.word, arg.cas, arg.number,
                             arg.gender, arg.animacy)} :
          ret' = [fault |-> r.fault, val |-> r.val,
                  call |-> inflectAdjCall(arg.cas, arg.number, arg.gender,
                                          arg.animacy)]
    /\ UNCHANGED <<analyzer, arg>>

-----------------------------------------------------------------------------
(* The initialisation facade: Default() over sync.Once *)

NumGoroutines == 2
MaxCalls == 2
Goroutines == 1 .. NumGoroutines

\* newAnalyzer() either builds the k-th Analyzer or fails with the k-th error
newAnalyzer(k) == { <<<<"Analyzer", k>>, Nil>>, <<Nil, <<"error", k>>>> }

\* before any Default() call
RestOnce ==
    /\ defaultAnalyzer = Nil
    /\ defaultErr = Nil
    /\ onceDone = FALSE
    /\ onceM = 0
    /\ pc = [g \in Goroutines |-> "idle"]
    /\ loaded = [g \in Goroutines |-> <<Nil, Nil>>]
    /\ ncalls = [g \in Goroutines |-> 0]
    /\ loads = 0
    /\ returned = {}

\* a goroutine calls Default()
Call(g) ==
    /\ pc[g] = "idle"
    /\ ncalls[g] < MaxCalls
    /\ ncalls' = [ncalls EXCEPT ![g] = @ + 1]
    /\ pc' = [pc EXCEPT ![g] = "Do"]
    /\ UNCHANGED <<defaultAnalyzer, defaultErr, onceDone, onceM, loaded,
                   loads, returned>>

\* Once.Do: the fast path, done is read without the mutex
OnceFast(g) ==
    /\ pc[g] = "Do"
    /\ pc' = [pc EXCEPT ![g] = IF onceDone THEN "readA" ELSE "lock"]
    /\ UNCHANGED <<defaultAnalyzer, defaultErr, onceDone, onceM, loaded,
                   ncalls, loads, returned>>

\* Once.doSlow: o.m.Lock()
OnceLock(g) ==
    /\ pc[g] = "lock"
    /\ onceM = 0
    /\ onceM' = g
    /\ pc' = [pc EXCEPT ![g] = "slow"]
    /\ UNCHANGED <<defaultAnalyzer, defaultErr, onceDone, loaded, ncalls,
                   loads, returned>>

\* Once.doSlow with the second done check left out
OnceSlow_nocheck(g) ==
    /\ pc[g] = "slow"
    /\ pc' = [pc EXCEPT ![g] = "load"]
    /\ UNCHANGED <<defaultAnalyzer, defaultErr, onceDone, onceM, loaded,
                   ncalls, loads, returned>>

\* Once.doSlow: done is read again under the mutex
OnceSlow(g) ==
    /\ pc[g] = "slow"
    /\ IF onceDone
         THEN /\ onceM' = 0
              /\ pc' = [pc EXCEPT ![g] = "readA"]
         ELSE /\ pc' = [pc EXCEPT ![g] = "load"]
              /\ UNCHANGED onceM
    /\ UNCHANGED <<defaultAnalyzer, defaultErr, onceDone, loaded, ncalls,
                   loads, returned>>

\* the closure handed to Do: newAnalyzer() runs
Load(g) ==
    /\ pc[g] = "load"
    /\ loads' = loads + 1
    /\ \E r \in newAnalyzer(loads + 1) :
          loaded' = [loaded EXCEPT ![g] = r]
    /\ pc' = [pc EXCEPT ![g] = "storeA"]
    /\ UNCHANGED <<defaultAnalyzer, defaultErr, onceDone, onceM, ncalls,
                   returned>>

\* the closure: defaultAnalyzer is assigned
StoreAnalyzer(g) ==
    /\ pc[g] = "storeA"
    /\ defaultAnalyzer' = loaded[g][1]
    /\ pc' = [pc EXCEPT ![g] = "storeE"]
    /\ UNCHANGED <<defaultErr, onceDone, onceM, loaded, ncalls, loads,
                   returned>>

\* the closure: defaultErr is assigned
StoreErr(g) ==
    /\ pc[g] = "storeE"
    /\ defaultErr' = loaded[g][2]
    /\ pc' = [pc EXCEPT ![g] = "setDone"]
    /\ UNCHANGED <<defaultAnalyzer, onceDone, onceM, loaded, ncalls, loads,
                   returned>>

\* Once.doSlow: the deferred o.done.Store(1)
OnceSetDone(g) ==
    /\ pc[g] = "setDone"
    /\ onceDone' = TRUE
    /\ pc' = [pc EXCEPT ![g] = "unlock"]
    /\ UNCHANGED <<defaultAnalyzer, defaultErr, onceM, loaded, ncalls, loads,
                   returned>>

\* Once.doSlow: the deferred o.m.Unlock()
OnceUnlock(g) ==
    /\ pc[g] = "unlock"
    /\ onceM' = 0
    /\ pc' = [pc EXCEPT ![g] = "readA"]
    /\ UNCHANGED <<defaultAnalyzer, defaultErr, onceDone, loaded, ncalls,
                   loads, returned>>

\* return defaultAnalyzer, defaultErr: the first operand is read
ReadAnalyzer(g) ==
    /\ pc[g] = "readA"
    /\ loaded' = [loaded EXCEPT ![g] = <<defaultAnalyzer, Nil>>]
    /\ pc' = [pc EXCEPT ![g] = "readE"]
    /\ UNCHANGED <<defaultAnalyzer, defaultErr, onceDone, onceM, ncalls,
                   loads, returned>>

\* return defaultAnalyzer, defaultErr: the second operand is read and the
\* call returns
ReadErrAndReturn(g) ==
    /\ pc[g] = "readE"
    /\ returned' = returned \cup { <<loaded[g][1], defaultErr>> }
    /\ loaded' = [loaded EXCEPT ![g] = <<Nil, Nil>>]
    /\ pc' = [pc EXCEPT ![g] = "idle"]
    /\ UNCHANGED <<defaultAnalyzer, defaultErr, onceDone, onceM, ncalls,
                   loads>>

-----------------------------------------------------------------------------
(* The completer step by step: start() and next() as its user calls them *)

MaxNext == 8        \* the most next() calls after one start()
MaxStarts == 2      \* the most start() calls on one completer

\* the node the bytes of s lead to from the root
nodeOf(an, s) == followBytes(an.words.dict, Bytes(s), U32(0)).next

\* start() on the node of a word prefix, the prefix handed over as the key
StartAt(an, s) == [index |-> nodeOf(an, s), prefix |-> Bytes(s)]

\* start() as get makes it: on the node after the payload separator, with no
\* prefix
StartAfter(an, s) ==
    [index |-> followChar(an.words.dict, U32(dawgPayloadSep),
                          nodeOf(an, s)).next,
     prefix |-> << >>]

MainStarts ==
    { StartAt(MainAnalyzer, s) : s \in {"et", "eti", "eto", "t", "ta", "tam"} }
        \cup { StartAfter(MainAnalyzer, s) :
                 s \in {"eto", "pil", "novoj", "tam", "gory", "kot"} }

\* the node below the separator of "tam": the only child of its parent
StaleNode ==
    followChar(MainAnalyzer.words.dict, U32(65), StartAfter(MainAnalyzer, "tam").index).next

\* the main tables with a guide that names a sibling for StaleNode: a label
\* ("z") its parent has no arc for
StaleGuideAnalyzer ==
    [MainAnalyzer EXCEPT
        !.words.guide.units[2 * ToNat(StaleNode) + 2] = 122]

StaleStarts ==
    { StartAt(StaleGuideAnalyzer, s) : s \in {"t", "ta", "tam", "eto"} }
        \cup { StartAfter(StaleGuideAnalyzer, s) : s \in {"tam", "pil"} }

BrokenStarts ==
    { StartAt(BrokenAnalyzer, s) : s \in {"m", "p"} }
        \cup { StartAfter(BrokenAnalyzer, s) : s \in {"m", "ma", "po"} }

\* a well-formed acyclic DAWG with a consistent guide
Consistent == {[an |-> MainAnalyzer, starts |-> MainStarts]}

\* any dictionary and guide contents
AnyContents ==
    Consistent
        \cup {[an |-> StaleGuideAnalyzer, starts |-> StaleStarts],
              [an |-> ShortGuideAnalyzer, starts |-> BrokenStarts],
              [an |-> TruncatedAnalyzer, starts |-> BrokenStarts]}

\* the starts of the tables in use
Starts == UNION { t.starts : t \in { u \in AnyContents : u.an = analyzer } }

\* no completer is in use
RestCompleter ==
    /\ cmpl = newCompleter
    /\ cpc = "new"
    /\ cstart = [index |-> U32(0), prefix |-> << >>]
    /\ ckeys = << >>
    /\ crets = << >>
    /\ nstarts = 0

\* newCompleter(&w.dict, &w.guide) on one of the tables
StartCompleter(tables) ==
    /\ \E t \in tables : analyzer = t.an
    /\ arg = ""
    /\ op = NoResult
    /\ ret = Ret(<< >>)
    /\ RestCompleter

\* c.start(index, prefix)
CompleterStart ==
    /\ cpc \in {"new", "run"}
    /\ nstarts < MaxStarts
    /\ \E st \in Starts :
          /\ cstart' = st
          /\ cmpl' = start(cmpl, st.index, st.prefix)
    /\ cpc' = "run"
    /\ ckeys' = << >>
    /\ crets' = << >>
    /\ nstarts' = nstarts + 1

\* c.next()
CompleterNext ==
    /\ cpc = "run"
    /\ Len(crets) < MaxNext
    /\ \E s \in {next(cmpl, analyzer.words.dict, analyzer.words.guide)} :
          IF s.fault # NoFault
            THEN /\ cpc' = s.fault
                 /\ UNCHANGED <<cmpl, ckeys, crets>>
            ELSE /\ cmpl' = s.c
                 /\ crets' = Append(crets, s.ok)
                 /\ ckeys' = IF s.ok THEN Append(ckeys, s.c.Key) ELSE ckeys
                 /\ UNCHANGED cpc
    /\ UNCHANGED <<cstart, nstarts>>

-----------------------------------------------------------------------------
(* Concurrent callers of the Analyzer *)

NumCallers == 2
Callers == 1 .. NumCallers

\* the calls a goroutine makes
CallerCalls ==
    {[op |-> "get", arg |-> "kot"],
     [op |-> "WordForms", arg |-> " Tam"],
     [op |-> "Tag", arg |-> "novyj"],
     [op |-> "Tag", arg |-> "xyz"],
     [op |-> "PhraseFormsConcordant", arg |-> "gory"],
     [op |-> "PhraseFormsConcordant", arg |-> "tam v"]}

Idle ==
    [at |-> "idle", op |-> NoResult, arg |-> "", word |-> "", idx |-> U32(0),
     n |-> 0, result |-> << >>, out |-> Ret(<< >>)]

\* every goroutine shares one completer
scratchOf_shared(g) == 1

\* the completer of the get call of goroutine g: newCompleter allocates one
\* for each call
scratchOf(g) == g

RestCallers ==
    /\ calls = [g \in Callers |-> Idle]
    /\ scratch = [g \in Callers |-> newCompleter]

\* the word an operation hands to get
wordOf(call) ==
    IF call.op = "get" THEN call.arg
    ELSE IF call.op = "PhraseFormsConcordant"
      THEN With(Fields(Normalize(call.arg)),
                LAMBDA words : IF Len(words) = 1 THEN words[1] ELSE "")
    ELSE Normalize(call.arg)

\* whether an operation answers without a get of its own: WordForms of an
\* empty word, PhraseFormsConcordant of no token or of several, whose get
\* calls are those of Tag, WordForms and inflect
answersAtOnce(call) ==
    \/ call.op = "WordForms" /\ Normalize(call.arg) = ""
    \/ call.op = "PhraseFormsConcordant"
          /\ Len(Fields(Normalize(call.arg))) # 1

answerAtOnce(a, call) ==
    IF call.op = "WordForms" THEN Ret(<< >>)
    ELSE PhraseFormsConcordant(a, call.arg)

\* what an operation makes of the entries get returned for its word
answerOf(a, call, word, entries) ==
    IF call.op = "get" THEN getResult(Entries(entries))
    ELSE IF call.op = "WordForms" THEN formsOfEntries(a, word, Entries(entries))
    ELSE IF call.op = "Tag" THEN tagOfEntries(a, Entries(entries))
    ELSE With(formsOfEntries(a, word, Entries(entries)),
              LAMBDA forms : IF forms.fault # NoFault THEN forms
                             ELSE IF forms.val # << >> THEN forms
                             ELSE Ret(<<word>>))

\* the node get hands to start: the bytes of the word followed, then the
\* payload separator
getNode(w, word) ==
    With(followBytes(w.dict, Bytes(word), U32(0)),
         LAMBDA r1 : IF ~r1.ok THEN r1
                     ELSE followChar(w.dict, U32(dawgPayloadSep), r1.next))

\* goroutine g calls an operation; get follows the bytes of the word and the
\* payload separator
CallerBegin(g) ==
    /\ calls[g].at = "idle"
    /\ \E call \in CallerCalls :
          IF answersAtOnce(call)
            THEN calls' = [calls EXCEPT
                             ![g] = [Idle EXCEPT
                                       !.at = "done", !.op = call.op,
                                       !.arg = call.arg,
                                       !.out = answerAtOnce(analyzer, call)]]
            ELSE \E r \in {getNode(analyzer.words, wordOf(call))} :
                    calls' = [calls EXCEPT
                                ![g] = [Idle EXCEPT
                                          !.at = IF r.fault # NoFault
                                                   THEN r.fault
                                                 ELSE IF r.ok THEN "start"
                                                 ELSE "entries",
                                          !.op = call.op, !.arg = call.arg,
                                          !.word = wordOf(call),
                                          !.idx = r.next]]
    /\ UNCHANGED scratch

\* c := newCompleter(&w.dict, &w.guide); c.start(idx, nil)
CallerStart(g) ==
    /\ calls[g].at = "start"
    /\ scratch' = [scratch EXCEPT
                     ![scratchOf(g)] = start(newCompleter, calls[g].idx,
                                             << >>)]
    /\ calls' = [calls EXCEPT ![g].at = "loop"]

\* one turn of the loop "for c.next()" of get
CallerNext(g) ==
    /\ calls[g].at = "loop"
    /\ calls[g].n <= MaxKeys
    /\ \E s \in {next(scratch[scratchOf(g)], analyzer.words.dict,
                       analyzer.words.guide)} :
          IF s.fault # NoFault
            THEN /\ calls' = [calls EXCEPT ![g].at = s.fault]
                 /\ UNCHANGED scratch
            ELSE /\ scratch' = [scratch EXCEPT ![scratchOf(g)] = s.c]
                 /\ calls' =
                       [calls EXCEPT
                          ![g].at = IF s.ok THEN "loop" ELSE "entries",
                          ![g].n = @ + 1,
                          ![g].result =
                              IF s.ok
                                THEN appendEntry(
                                       @, DecodeString(stripNewline(s.c.Key)))
                                ELSE @]

\* get returns its entries and the operation answers from them
CallerFinish(g) ==
    /\ calls[g].at = "entries"
    /\ calls' = [calls EXCEPT
                   ![g].at = "done",
                   ![g].out = answerOf(analyzer, calls[g], calls[g].word,
                                       calls[g].result)]
    /\ UNCHANGED scratch

\* the operation returns to its caller
CallerReturn(g) ==
    /\ calls[g].at = "done"
    /\ calls' = [calls EXCEPT ![g] = Idle]
    /\ UNCHANGED scratch

-----------------------------------------------------------------------------
(* Specifications *)

vars == <<varsUnits, varsOnce, varsQuery, varsCompleter, varsCallers>>

InitUnits == StartUnits /\ RestOnce /\ RestQuery /\ RestCompleter
        /\ RestCallers

NextUnits ==
    ApplyUnitOffset /\ UNCHANGED <<varsOnce, varsQuery, varsCompleter,
                 varsCallers>>

SpecUnits == InitUnits /\ [][NextUnits]_vars

InitOnce == RestUnits /\ RestOnce /\ RestQuery /\ RestCompleter
        /\ RestCallers

NextOnce ==
    \E g \in Goroutines :
        /\ \/ Call(g)
           \/ OnceFast(g)
           \/ OnceLock(g)
           \/ OnceSlow(g)
           \/ Load(g)
           \/ StoreAnalyzer(g)
           \/ StoreErr(g)
           \/ OnceSetDone(g)
           \/ OnceUnlock(g)
           \/ ReadAnalyzer(g)
           \/ ReadErrAndReturn(g)
        /\ UNCHANGED <<varsUnits, varsQuery, varsCompleter,
                 varsCallers>>

SpecOnce == InitOnce /\ [][NextOnce]_vars

\* the public operations on well-formed tables
Init == RestUnits /\ RestOnce /\ StartQuery(WellFormed) /\ RestCompleter
        /\ RestCallers

Next ==
    /\ \/ CallWordForms
       \/ CallTag
       \/ CallPhraseFormsConcordant
    /\ UNCHANGED <<varsUnits, varsOnce, varsCompleter,
                 varsCallers>>

Spec == Init /\ [][Next]_vars

\* the public operations on whatever the loader accepts
InitLoadable ==
    RestUnits /\ RestOnce /\ StartQuery(Loadable) /\ RestCompleter
        /\ RestCallers

SpecLoadable == InitLoadable /\ [][Next]_vars

\* the words index, asked for the entries of a word
InitGet == RestUnits /\ RestOnce /\ StartQuery(Indexes) /\ RestCompleter
        /\ RestCallers

NextGet == CallGet /\ UNCHANGED <<varsUnits, varsOnce, varsCompleter,
                 varsCallers>>

SpecGet == InitGet /\ [][NextGet]_vars

\* one call of inflectAdj on the main tables
InitAdj == RestUnits /\ RestOnce /\ StartAdj /\ RestCompleter
        /\ RestCallers

NextAdj == CallInflectAdj /\ UNCHANGED <<varsUnits, varsOnce, varsCompleter,
                 varsCallers>>

SpecAdj == InitAdj /\ [][NextAdj]_vars

\* a completer over a well-formed index, driven by its user
InitCompleter == RestUnits /\ RestOnce /\ StartCompleter(Consistent)
        /\ RestCallers

NextCompleter ==
    /\ \/ CompleterStart
       \/ CompleterNext
    /\ UNCHANGED <<varsUnits, varsOnce, varsQuery, varsCallers>>

SpecCompleter == InitCompleter /\ [][NextCompleter]_vars

\* a completer over whatever the loader accepts
InitCompleterAny == RestUnits /\ RestOnce /\ StartCompleter(AnyContents)
        /\ RestCallers

SpecCompleterAny == InitCompleterAny /\ [][NextCompleter]_vars

\* goroutines calling the operations of one Analyzer at the same time
InitCallers ==
    RestUnits /\ RestOnce /\ RestQuery /\ RestCompleter /\ RestCallers

NextCallers ==
    \E g \in Callers :
        /\ \/ CallerBegin(g)
           \/ CallerStart(g)
           \/ CallerNext(g)
           \/ CallerFinish(g)
           \/ CallerReturn(g)
        /\ UNCHANGED <<varsUnits, varsOnce, varsQuery, varsCompleter>>

SpecCallers == InitCallers /\ [][NextCallers]_vars

-----------------------------------------------------------------------------
(* Claims about Default() *)

\* a completed outcome of the load: an instance and no error, or no instance
\* and an error
Completed(r) == (r[1] = Nil) # (r[2] = Nil)

\* C1: under any interleaving of Default() calls newAnalyzer runs at most
\* once, it has run exactly once when a call returns, and every call returns
\* one and the same completed pair, the one the single load produced.
C1_LoadOnceSamePair ==
    /\ loads <= 1
    /\ \A r \in returned :
          /\ loads = 1
          /\ Completed(r)
          /\ r = <<defaultAnalyzer, defaultErr>>
          /\ r \in newAnalyzer(1)
    /\ Cardinality(returned) <= 1

\* every goroutine has made all its calls and they returned one pair
C1_WitnessAllReturned ==
    /\ \A g \in Goroutines : ncalls[g] = MaxCalls /\ pc[g] = "idle"
    /\ Cardinality(returned) = 1
    /\ loads = 1

\* a goroutine holds the mutex on the slow path although another goroutine
\* has completed the load: its first call raced with the loading one
C1_WitnessRace ==
    /\ returned # {}
    /\ \E g \in Goroutines :
          /\ pc[g] = "slow"
          /\ onceDone
          /\ ncalls[g] = 1

-----------------------------------------------------------------------------
(* Claims about WordForms *)

\* the entries the words index returns for the normalised argument
ArgEntries == get(analyzer.words, Normalize(arg))

\* whether the words index returns at least one entry for the argument
ArgIndexed == ArgEntries.fault = NoFault /\ Len(ArgEntries.entries) > 0

\* the number of forms of the paradigm of the argument's first entry
ArgParadigmSize ==
    Len(At(analyzer.paradigms, ArgEntries.entries[1].paradigmID)) \div 3

FormsOfLexeme(l) == SurfaceForms(MainAnalyzer, {l})

\* whether the first entry the index returns for w is an entry of lexeme l:
\* its paradigm is l's and its form of l is w
FirstEntryIn(l, w) ==
    LET g == get(MainAnalyzer.words, w)
    IN  /\ g.fault = NoFault
        /\ Len(g.entries) > 0
        /\ g.entries[1].paradigmID = l[1]
        /\ LET para == At(MainAnalyzer.paradigms, l[1])
               n == Len(para) \div 3
           IN  /\ g.entries[1].formIdx < n
               /\ FormOf(MainAnalyzer, para, n, l[2], g.entries[1].formIdx) = w

\* the set of strings WordForms returns for w
FormSet(w) == Range(WordForms(MainAnalyzer, w).val)

\* C3, as stated: for every pair w, w' of forms of one lexeme, WordForms(w)
\* and WordForms(w') return the same set of strings.
C3_SameLexemeSameForms ==
    op = "WordForms" =>
        \A l \in MainLexemes :
            Normalize(arg) \in FormsOfLexeme(l) =>
                \A w \in FormsOfLexeme(l) : FormSet(w) = Range(ret.val)

\* C3, amended: for every pair w, w' of forms of one lexeme such that the
\* first entry the index returns for each of them is an entry of that lexeme,
\* WordForms(w) and WordForms(w') return the same set of strings.
C3_FirstEntrySameForms ==
    op = "WordForms" =>
        \A l \in MainLexemes :
            FirstEntryIn(l, Normalize(arg)) =>
                \A w \in FormsOfLexeme(l) :
                    FirstEntryIn(l, w) => FormSet(w) = Range(ret.val)

\* WordForms has answered for a form that carries a paradigm prefix and whose
\* first entry is of its lexeme; the lexeme has forms without the prefix
C3_Witness ==
    /\ op = "WordForms"
    /\ \E l \in MainLexemes :
          /\ FirstEntryIn(l, Normalize(arg))
          /\ ~HasPrefix(Normalize(arg), l[2])
          /\ \E w \in FormsOfLexeme(l) :
                HasPrefix(w, l[2]) /\ FirstEntryIn(l, w)
    /\ ret.val # << >>

-----------------------------------------------------------------------------
(* Claims about PhraseFormsConcordant *)

\* the tokens of the normalised argument
ArgWords == Fields(Normalize(arg))

\* whether the words index has an entry for token w
Found(w) ==
    LET g == get(analyzer.words, w)
    IN  g.fault = NoFault /\ Len(g.entries) > 0

\* whether the first loop of PhraseFormsConcordant finds a NOUN or NPRO head
\* among the tokens of the argument
ArgHasHead ==
    headIdx([i \in 1 .. Len(ArgWords) |-> wordInfo(analyzer, ArgWords[i]).val])
        # -1

\* C4: for every phrase that is not empty after trimming, the first element
\* of PhraseFormsConcordant(p) is the lowercased, trimmed p, whichever branch
\* answers.
C4_FirstIsPhrase ==
    (op = "PhraseFormsConcordant" /\ Normalize(arg) # "") =>
        /\ ret.fault = NoFault
        /\ ret.val # << >>
        /\ ret.val[1] = Normalize(arg)

\* the genders inflect is asked for
genders == <<"", "masc", "femn", "neut">>

\* every token of the phrases asked of the well-formed tables
MainTokens ==
    UNION { Range(Fields(Normalize(p))) :
              p \in { q \in MainInputs : Len(Fields(Normalize(q))) > 1 } }

\* the forms inflect(w, ...) produces, for every token of the inputs
InflectedForms ==
    [w \in MainTokens |->
        { inflect(MainAnalyzer, w, cases[c], numbers[n], genders[g], "").val :
            c \in 1 .. Len(cases), n \in 1 .. Len(numbers),
            g \in 1 .. Len(genders) }]

\* whether the phrase e keeps the k tokens of words in their positions: a
\* service word or a word the index does not have verbatim, any other token
\* as itself or as a form inflect produces for it
KeepsPositions(e, words) ==
    LET toks == Fields(e)
    IN  /\ Len(toks) = Len(words)
        /\ \A i \in 1 .. Len(words) :
              IF words[i] \in serviceWords \/ ~Found(words[i])
                THEN toks[i] = words[i]
              ELSE toks[i] = words[i] \/ toks[i] \in InflectedForms[words[i]]

\* C5, as stated: every element of PhraseFormsConcordant of a multi-token
\* phrase keeps the tokens of the phrase in their positions, whether or not a
\* head was found.
C5_KeepsPositionsAlways ==
    (op = "PhraseFormsConcordant" /\ Len(ArgWords) > 1) =>
        /\ ret.fault = NoFault
        /\ \A j \in 1 .. Len(ret.val) : KeepsPositions(ret.val[j], ArgWords)

\* C5, amended: every element of PhraseFormsConcordant of a multi-token
\* phrase in which a NOUN or NPRO head was found keeps the tokens of the
\* phrase in their positions.
C5_KeepsPositionsWithHead ==
    (op = "PhraseFormsConcordant" /\ Len(ArgWords) > 1 /\ ArgHasHead) =>
        /\ ret.fault = NoFault
        /\ \A j \in 1 .. Len(ret.val) : KeepsPositions(ret.val[j], ArgWords)

\* PhraseFormsConcordant has declined a phrase with a head and with a token
\* that is no service word and that the index does not have
C5_Witness ==
    /\ op = "PhraseFormsConcordant"
    /\ Len(ArgWords) > 1
    /\ ArgHasHead
    /\ \E i \in 1 .. Len(ArgWords) :
          ArgWords[i] \notin serviceWords /\ ~Found(ArgWords[i])
    /\ Len(ret.val) > 1

\* C6: PhraseFormsConcordant(p) holds no string twice, in the single-token
\* branch, in the branch without a head and in the branch with a head.
C6_NoDuplicates ==
    op = "PhraseFormsConcordant" => NoDuplicates(ret.val)

\* PhraseFormsConcordant has declined a phrase with a head, and two of the
\* twelve declined phrases coincide with each other or with the phrase
C6_Witness ==
    /\ op = "PhraseFormsConcordant"
    /\ Len(ArgWords) > 1
    /\ ArgHasHead
    /\ Len(ret.val) > 1
    /\ Len(ret.val) < 1 + Len(numbers) * Len(cases)

-----------------------------------------------------------------------------
(* Claims about empty and unknown input *)

\* the value an operation returns for nothing: "" for Tag, nil otherwise
EmptyResult == IF op = "Tag" THEN Ret("") ELSE Ret(<< >>)

\* C7: for empty or whitespace-only input WordForms returns nil, Tag "" and
\* PhraseFormsConcordant nil; for a single token u the index does not have,
\* WordForms(u) is nil, Tag(u) is "" and PhraseFormsConcordant(u) is [u].
C7_EmptyAndUnknown ==
    op # NoResult =>
        /\ Len(ArgWords) = 0 => ret = EmptyResult
        /\ (Len(ArgWords) = 1 /\ ~Found(ArgWords[1])) =>
              ret = IF op = "PhraseFormsConcordant"
                      THEN Ret(<<ArgWords[1]>>)
                      ELSE EmptyResult

\* PhraseFormsConcordant has answered for one unknown token given with
\* capitals and blanks
C7_Witness ==
    /\ op = "PhraseFormsConcordant"
    /\ Len(ArgWords) = 1
    /\ ~Found(ArgWords[1])
    /\ arg # ArgWords[1]
    /\ ret = Ret(<<ArgWords[1]>>)

-----------------------------------------------------------------------------
(* Claims about tables that are loadable but inconsistent *)

\* the first entry of the argument, when the index answers and the paradigm
\* id of the entry is inside the paradigm store
ArgFirstEntryReadable ==
    /\ ArgIndexed
    /\ ArgEntries.entries[1].paradigmID < Len(analyzer.paradigms)

\* what Tag is to return for the first entry of the argument: "" when the
\* form index is >= N or the tag id is outside the gramtab, gramtab[para[N +
\* fi]] otherwise
TagOfFirstEntry ==
    LET e == ArgEntries.entries[1]
        para == At(analyzer.paradigms, e.paradigmID)
        n == Len(para) \div 3
    IN  IF e.formIdx >= n THEN ""
        ELSE IF At(para, n + e.formIdx) >= Len(analyzer.gramtab) THEN ""
        ELSE At(analyzer.gramtab, At(para, n + e.formIdx))

\* C8: Tag returns gramtab[para[N + fi]] for the first entry (pid, fi) of the
\* normalised word, and "" when the index has no entry, when fi >= N and when
\* the tag id is outside the gramtab.
C8_TagOrEmpty ==
    op = "Tag" =>
        /\ (ArgEntries.fault = NoFault /\ Len(ArgEntries.entries) = 0) =>
              ret = Ret("")
        /\ ArgFirstEntryReadable => ret = Ret(TagOfFirstEntry)

\* C9: whatever tables were loaded, no operation faults with an access out
\* of range.
C9_NoPanic == op # NoResult => ret.fault # Panic

-----------------------------------------------------------------------------
(* Claims about the completer *)

\* the labels the arcs of d carry
labelsOf(d) ==
    { ToNat(unitLabel(At(d.units, i))) :
        i \in { j \in 0 .. Len(d.units) - 1 :
                  IsSmall(unitLabel(At(d.units, j))) } } \ {0}

MainLabels == labelsOf(MainAnalyzer.words.dict)

RECURSIVE reachBelow(_, _, _, _)

\* <<node, key>> for every path of arcs from index, found by trying every
\* label on every node: the guide is not consulted
reachBelow(d, ls, index, path) ==
    {<<index, path>>}
        \cup UNION { With(followChar(d, U32(l), index),
                          LAMBDA r :
                             IF r.ok
                               THEN reachBelow(d, ls, r.next, Append(path, l))
                               ELSE {}) : l \in ls }

MainReach ==
    [st \in MainStarts |->
        { p \in reachBelow(MainAnalyzer.words.dict, MainLabels, st.index,
                           st.prefix) :
            hasValue(MainAnalyzer.words.dict, p[1]) }]

\* the keys below a start: the prefix and the labels of each path from the
\* index to a value-bearing node
KeysBelow(st) == { p[2] : p \in MainReach[st] }

\* the value-bearing nodes below a start
ValueNodesBelow(st) == { p[1] : p \in MainReach[st] }

RECURSIVE guideKeys(_, _, _, _), siblingKeys(_, _, _, _, _)

\* the keys below index in the depth-first order of the guide: the node
\* itself, then its children from the child label along the sibling labels
guideKeys(d, g, index, path) ==
    (IF hasValue(d, index) THEN <<path>> ELSE << >>)
        \o siblingKeys(d, g, index, child(g, index), path)

siblingKeys(d, g, index, label, path) ==
    IF label = 0 THEN << >>
    ELSE With(followChar(d, U32(label), index).next,
              LAMBDA n : guideKeys(d, g, n, Append(path, label))
                           \o siblingKeys(d, g, index, sibling(g, n), path))

MainGuideKeys ==
    [st \in MainStarts |->
        guideKeys(MainAnalyzer.words.dict, MainAnalyzer.words.guide,
                  st.index, st.prefix)]

\* next() has returned false since the last start()
Exhausted == crets # << >> /\ ~Last(crets)

\* what the completer has returned so far is the beginning of the keys in the
\* order of the guide: true with each key in turn, false from then on
EnumeratesInOrder(keys) ==
    /\ Len(ckeys) <= Len(keys)
    /\ ckeys = SubSeq(keys, 1, Len(ckeys))
    /\ \A i \in 1 .. Len(crets) : crets[i] <=> i <= Len(keys)

\* C11 as stated: next() returns true once for each value-bearing node
\* reachable from the index, so an exhausted completer has returned true as
\* many times as there are such nodes.
C11_OncePerValueNode ==
    (cpc = "run" /\ Exhausted) =>
        Len(ckeys) = Cardinality(ValueNodesBelow(cstart))

\* C11 amended: over a well-formed index with a consistent guide, after
\* start(index, prefix) with index # 0 the next() calls return true once for
\* each path from index to a value-bearing node - each key (prefix plus the
\* labels of the path) exactly once, in the child-then-sibling depth-first
\* order of the guide - and then false: with k keys below the index, call
\* k + 1 and every call after it return false, and no call fails to return.
C11_EachKeyOnceInGuideOrder ==
    /\ cpc \in {"new", "run"}
    /\ cpc = "run" =>
          /\ cstart.index # U32(0)
          /\ Range(MainGuideKeys[cstart]) = KeysBelow(cstart)
          /\ NoDuplicates(MainGuideKeys[cstart])
          /\ EnumeratesInOrder(MainGuideKeys[cstart])

\* a completer started on the node of a word prefix has returned several
\* keys that share their last node, and then false
C11_Witness ==
    /\ cpc = "run"
    /\ cstart.prefix # << >>
    /\ Exhausted
    /\ Len(ckeys) > 3
    /\ Len(ckeys) > Cardinality(ValueNodesBelow(cstart))
    /\ Range(ckeys) = KeysBelow(cstart)

\* C16: once next() has returned false, every later next() without a start()
\* in between returns false as well, whatever the dictionary and the guide
\* hold and however the false came about.
C16_ExhaustionAbsorbing ==
    \A i, j \in 1 .. Len(crets) : (i < j /\ ~crets[i]) => ~crets[j]

-----------------------------------------------------------------------------
(* Claims about the words index *)

\* the entries the lexemes of the main tables give a word: <<paradigm id,
\* form index>> for every form of a lexeme that is spelled w
MainEntries(w) ==
    { [paradigmID |-> l[1], formIdx |-> i] :
        <<l, i>> \in
          { q \in MainLexemes \X (0 .. 27) :
              /\ q[2] < Len(At(MainParadigms, q[1][1])) \div 3
              /\ FormOf(MainAnalyzer, At(MainParadigms, q[1][1]),
                        Len(At(MainParadigms, q[1][1])) \div 3, q[1][2],
                        q[2]) = w } }

\* the entries the payloads of the odd index give a word, in the order of
\* their bytes: what a reader of ">HH" records finds in them
OddEntries ==
    [w \in OddWords |->
        IF w = "a" THEN <<[paradigmID |-> 1, formIdx |-> 2]>>
        ELSE IF w = "b" THEN <<[paradigmID |-> 2, formIdx |-> 3],
                               [paradigmID |-> 258, formIdx |-> 772]>>
        ELSE IF w \in {"c", "e"} THEN <<[paradigmID |-> 1, formIdx |-> 2]>>
        ELSE IF w = "d" THEN <<[paradigmID |-> 1, formIdx |-> 2],
                               [paradigmID |-> 1, formIdx |-> 2]>>
        ELSE IF w = "ha" THEN <<[paradigmID |-> 0, formIdx |-> 0]>>
        ELSE << >>]

\* the words the index in use was compiled with
IndexedWords ==
    IF analyzer = OddAnalyzer THEN { k[1] : k \in OddKeys }
    ELSE SurfaceForms(MainAnalyzer, MainLexemes)

\* the completions of the argument in the order the completer enumerates
\* them: the keys below the node after the payload separator
ArgCompletions ==
    guideKeys(analyzer.words.dict, analyzer.words.guide,
              StartAfter(analyzer, arg).index, << >>)

\* whether a completion decodes to a payload of at least 4 bytes
Decodes(key) ==
    LET dec == DecodeString(stripNewline(key))
    IN  ~dec.err /\ Len(dec.bytes) >= 4

\* the pair a completion decodes to, both halves big-endian
PairOf(key) ==
    LET b == DecodeString(stripNewline(key)).bytes
    IN  [paradigmID |-> b[1] * 256 + b[2], formIdx |-> b[3] * 256 + b[4]]

\* C12: get(word) returns no entries when the path of the word and the
\* payload separator is missing from the index; otherwise one (paradigm id,
\* form index) pair, big-endian, for each completion that decodes to at least
\* 4 bytes, in the order of the enumeration, the others skipped.
C12_EntriesOfCompletions ==
    op = "get" =>
        IF arg \notin IndexedWords THEN ret = Ret(<< >>)
        ELSE LET kept == SelectSeq(ArgCompletions, Decodes)
             IN  /\ ret = Ret([i \in 1 .. Len(kept) |-> PairOf(kept[i])])
                 /\ analyzer = MainAnalyzer =>
                       /\ Range(ret.val) = MainEntries(arg)
                       /\ Len(ret.val) = Cardinality(MainEntries(arg))
                 /\ analyzer = OddAnalyzer =>
                       /\ ret.val = OddEntries[arg]
                       /\ Range(ArgCompletions)
                            = { k[2] : k \in { q \in OddKeys : q[1] = arg } }

\* get has skipped a completion that decodes to fewer than 4 bytes and has
\* returned the entries of the two completions after it
C12_Witness ==
    /\ op = "get"
    /\ arg \in IndexedWords
    /\ ~Decodes(ArgCompletions[1])
    /\ DecodeString(stripNewline(ArgCompletions[1])).err = FALSE
    /\ Len(ret.val) = 2
    /\ Len(ArgCompletions) = 3
    /\ ret.val[2].paradigmID = 258

-----------------------------------------------------------------------------
(* Claims about the agreement of adjectives *)

\* the case the accusative rule gives for a number, gender and animacy
AccusativeOf(number, gender, animacy) ==
    CASE number = "plur" -> (IF animacy = "inan" THEN "nomn" ELSE "gent")
      [] number = "sing" /\ gender = "masc" ->
            (IF animacy = "inan" THEN "nomn" ELSE "gent")
      [] number = "sing" /\ gender = "neut" -> "nomn"
      [] number = "sing" /\ gender \in {"femn", ""} -> "accs"

\* C13: for every case, number, gender and animacy, inflectAdj calls inflect
\* with the animacy empty, the gender cleared exactly when the number is
\* plur, and the requested case, except that accs becomes: plur -> nomn if
\* inan else gent; sing masc -> nomn if inan else gent; sing neut -> nomn;
\* sing femn or no gender -> accs. It returns what that call of inflect
\* returns.
C13_InflectAdjCall ==
    op = "inflectAdj" =>
        /\ ret.call.animacy = ""
        /\ ret.call.number = arg.number
        /\ (ret.call.gender = "") <=> (arg.number = "plur" \/ arg.gender = "")
        /\ arg.number # "plur" => ret.call.gender = arg.gender
        /\ ret.call.cas = IF arg.cas = "accs"
                            THEN AccusativeOf(arg.number, arg.gender,
                                              arg.animacy)
                            ELSE arg.cas
        /\ [fault |-> ret.fault, val |-> ret.val]
              = inflect(analyzer, arg.word,
                        IF arg.cas = "accs"
                          THEN AccusativeOf(arg.number, arg.gender,
                                            arg.animacy)
                          ELSE arg.cas,
                        arg.number,
                        IF arg.number = "plur" THEN "" ELSE arg.gender, "")

\* inflectAdj was asked for the accusative plural of an adjective agreeing
\* with an animate feminine head and has called inflect for the genitive
\* plural of no gender
C13_Witness ==
    /\ op = "inflectAdj"
    /\ arg = [word |-> "novyj", cas |-> "accs", number |-> "plur",
              gender |-> "femn", animacy |-> "anim"]
    /\ ret.call = [cas |-> "gent", number |-> "plur", gender |-> "",
                   animacy |-> ""]
    /\ ret.fault = NoFault
    /\ ret.val = "novyh"

-----------------------------------------------------------------------------
(* Claims about the head of a phrase *)

\* the tag of each token of the argument
ArgTags == [i \in 1 .. Len(ArgWords) |-> Tag(analyzer, ArgWords[i]).val]

\* the positions of the non-service tokens whose tag has the POS NOUN or NPRO
NounPositions ==
    { i \in 1 .. Len(ArgWords) :
        /\ ArgWords[i] \notin serviceWords
        /\ tagPOS(ArgTags[i]) \in {"NOUN", "NPRO"} }

\* the rightmost of them
HeadPosition == CHOOSE i \in NounPositions : \A j \in NounPositions : j <= i

\* token i of the argument in a case and number, agreed with the head at h
AgreedToken(i, h, cas, number) ==
    IF ArgWords[i] \in serviceWords THEN ArgWords[i]
    ELSE IF tagPOS(ArgTags[i]) \in {"NOUN", "NPRO"}
      THEN inflect(analyzer, ArgWords[i], cas, number, "", "").val
    ELSE IF tagPOS(ArgTags[i]) \in {"ADJF", "PRTF"}
      THEN inflectAdj(analyzer, ArgWords[i], cas, number,
                      tagGrammeme(ArgTags[h], <<"masc", "femn", "neut">>),
                      tagGrammeme(ArgTags[h], <<"anim", "inan">>)).val
    ELSE ArgWords[i]

\* the phrase and after it the twelve agreed phrases, number outer in (sing,
\* plur), case inner in (nomn, gent, datv, accs, ablt, loct)
AgreedPhrases(h) ==
    <<Normalize(arg)>>
        \o [j \in 1 .. 12 |->
              Join([i \in 1 .. Len(ArgWords) |->
                      AgreedToken(i, h,
                                  <<"nomn", "gent", "datv", "accs", "ablt",
                                    "loct">>[((j - 1) % 6) + 1],
                                  <<"sing", "plur">>[((j - 1) \div 6) + 1])],
                   " ")]

\* the phrase and after it the WordForms of each non-service token, left to
\* right
FlatForms ==
    LET RECURSIVE from(_)
        from(i) ==
            IF i > Len(ArgWords) THEN << >>
            ELSE (IF ArgWords[i] \in serviceWords THEN << >>
                  ELSE WordForms(analyzer, ArgWords[i]).val) \o from(i + 1)
    IN  <<Normalize(arg)>> \o from(1)

\* whether out is all without its repetitions: each element of all once, in
\* the order of the first occurrences
FirstOccurrences(out, all) ==
    /\ NoDuplicates(out)
    /\ Range(out) = Range(all)
    /\ \A p, q \in 1 .. Len(out) :
          p < q => \E m \in 1 .. Len(all) :
                      /\ all[m] = out[p]
                      /\ \A k \in 1 .. m : all[k] # out[q]

\* C14: in a phrase of several tokens the head is the rightmost non-service
\* token whose tag has the POS NOUN or NPRO. With a head, every ADJF or PRTF
\* token is agreed with the gender and animacy of that head, and the outputs
\* after the phrase follow the order number in (sing, plur) outer, case in
\* (nomn, gent, datv, accs, ablt, loct) inner, at most 13 elements in all.
\* Without a head, the result is the phrase followed by the de-duplicated
\* WordForms of each non-service token from left to right.
C14_RightmostHead ==
    (op = "PhraseFormsConcordant" /\ Len(ArgWords) > 1) =>
        /\ ret.fault = NoFault
        /\ Len(ret.val) <= 13 \/ NounPositions = {}
        /\ FirstOccurrences(ret.val,
                            IF NounPositions = {} THEN FlatForms
                            ELSE AgreedPhrases(HeadPosition))

\* PhraseFormsConcordant has agreed an adjective that stands next to a
\* masculine noun with the neuter noun further right
C14_Witness ==
    /\ op = "PhraseFormsConcordant"
    /\ ArgWords = <<"novyj", "stol", "v", "sele">>
    /\ NounPositions = {2, 4}
    /\ tagGrammeme(ArgTags[2], <<"masc", "femn", "neut">>) = "masc"
    /\ tagGrammeme(ArgTags[4], <<"masc", "femn", "neut">>) = "neut"
    /\ Len(ret.val) > 2
    /\ ret.val[2] = "novoe stol v selo"

-----------------------------------------------------------------------------
(* Claims about concurrent callers *)

\* the call a goroutine is in
CallOf(g) == [op |-> calls[g].op, arg |-> calls[g].arg]

\* what the call returns when it runs alone
Alone(call) ==
    IF call.op = "get" THEN getResult(get(MainAnalyzer.words, call.arg))
    ELSE IF call.op = "WordForms" THEN WordForms(MainAnalyzer, call.arg)
    ELSE IF call.op = "Tag" THEN Tag(MainAnalyzer, call.arg)
    ELSE PhraseFormsConcordant(MainAnalyzer, call.arg)

AloneOf == [call \in CallerCalls |-> Alone(call)]

RECURSIVE nextTimes(_, _)

\* the completer after k calls of next() that nothing came between
nextTimes(c, k) ==
    IF k = 0 THEN c
    ELSE nextTimes(next(c, MainAnalyzer.words.dict,
                        MainAnalyzer.words.guide).c, k - 1)

\* the completer each start leads to after k calls of next()
ScratchAlone ==
    [call \in CallerCalls |->
        [k \in 0 .. MaxKeys + 1 |->
            IF answersAtOnce(call)
                 \/ ~getNode(MainAnalyzer.words, wordOf(call)).ok
              THEN newCompleter
            ELSE nextTimes(start(newCompleter,
                                 getNode(MainAnalyzer.words,
                                         wordOf(call)).next,
                                 << >>), k)]]

\* C15: get, WordForms, Tag and PhraseFormsConcordant calls running at the
\* same time leave the units of the dictionary, the guide, the paradigms,
\* the suffixes and the gramtab as they were; each get call has a completer
\* of its own, which no other call changes; and each call returns what it
\* returns when it runs alone.
C15_CallersIndependent ==
    /\ analyzer = MainAnalyzer
    /\ \A g \in Callers :
          /\ calls[g].at \in {"idle", "start", "loop", "entries", "done"}
          /\ (calls[g].at = "loop" \/ calls[g].n > 0) =>
                scratch[scratchOf(g)] = ScratchAlone[CallOf(g)][calls[g].n]
          /\ calls[g].at = "done" => calls[g].out = AloneOf[CallOf(g)]

\* a get call has returned its entries while the get call of another
\* goroutine, started before it ended, is in the middle of its enumeration
C15_Witness ==
    \E g, h \in Callers :
        /\ g # h
        /\ calls[g].at = "done"
        /\ calls[g].op = "get"
        /\ Len(calls[g].out.val) > 0
        /\ calls[h].at = "loop"
        /\ calls[h].n = 1
        /\ calls[h].op = "Tag"
        /\ scratch[scratchOf(h)].Key # << >>
        /\ scratch[scratchOf(g)].indexStack = << >>

=============================================================================
